---- MODULE Spec2Model ----
(***************************************************************************)
(* The experiment dispatcher of run_self_har.py: the loop over folds       *)
(* (held-out users), and inside each fold the loop over the experiment     *)
(* configs, with the module-level Python variables that survive from one   *)
(* step to the next (previous_config, model, optimizer, ev,                *)
(* prepared_datasets).                                                     *)
(*                                                                         *)
(* A config is a Python dict: a function whose DOMAIN is the set of keys   *)
(* present.  List positions are 0-based as in the source.  A trained       *)
(* artifact is named by the path the trainer returned; a model handle is   *)
(* the artifact it was loaded from plus the view taken of it.              *)
(***************************************************************************)
EXTENDS Integers, Sequences, FiniteSets, TLC

VARIABLES
    config_file,          \* experiment_configs as stored in the JSON file (re-read every fold)
    users,                \* len(users): the number of folds
    verbose,              \* args.verbose
    pc,                   \* position of the main program
    j,                    \* index of the current fold
    i,                    \* index of the experiment to dispatch next
    experiment_configs,   \* the list of config dicts of the current fold
    previous_config,      \* {} for None, {k} for an alias of experiment_configs[k]
    prepared_datasets,    \* dict: key -> ordinal of the load call that produced the value
    model,                \* the variable `model` of the eval_har branch: {} while unbound
    optimizer,            \* TRUE once the variable `optimizer` is bound
    ev,                   \* ev[0..3]: {} for None, {r} for an evaluation record
    conv,                 \* conv[0..3]: the confusion matrices added so far, in order
    y_true,               \* y_true[0..1]: the pooled true labels, one block per fold added
    y_pred,               \* y_pred[0..1]: the pooled predictions, one block per fold added
    performance_labelled_dataset,     \* 2, 3 -> key -> the running sum
    performance_unlabelled_dataset,   \* 2, 3 -> key -> the running sum
    performance_unlabelled_dataset_dictionary,   \* fold -> the copy of ev its summary kept
    loadCalls,            \* calls of load_unlabelled_dataset made in the current fold
    trainReturned,        \* positions whose composite_train_model call returned in this fold
    pathWritten,          \* positions whose trained_model_path the dispatcher assigned in this fold
    lastStep,             \* what the step dispatched last did
    message,              \* the last ERROR line printed or exception raised
    call,                 \* a function of the program called on its own: its name and arguments
    outcome               \* {} until that call has ended, then {what it returned or raised}

vars == <<config_file, users, verbose, pc, j, i, experiment_configs, previous_config,
          prepared_datasets, model, optimizer, ev, conv, y_true, y_pred,
          performance_labelled_dataset, performance_unlabelled_dataset,
          performance_unlabelled_dataset_dictionary, loadCalls,
          trainReturned, pathWritten, lastStep, message, call, outcome>>

\* the variables of the main program
mainVars == <<config_file, users, verbose, pc, j, i, experiment_configs, previous_config,
              prepared_datasets, model, optimizer, ev, conv, y_true, y_pred,
              performance_labelled_dataset, performance_unlabelled_dataset,
              performance_unlabelled_dataset_dictionary, loadCalls,
              trainReturned, pathWritten, lastStep, message>>

----------------------------------------------------------------------------
(* Bounds *)

MaxConfigs == 4
MaxUsers == 2
MaxLabel == 3
MaxWindows == 3
MaxRepeat == 2
MaxSamples == 3
MaxPerClass == 2

----------------------------------------------------------------------------
(* Python dicts and lists *)

EmptyDict == [k \in {} |-> k]

Put(d, key, value) == [k \in DOMAIN d \cup {key} |-> IF k = key THEN value ELSE d[k]]

\* list[k] for a list of length n: the position read, or {} for IndexError
PyIndex(n, k) ==
    IF 0 <= k /\ k < n THEN {k}
    ELSE IF 0 - n <= k /\ k < 0 THEN {n + k}
    ELSE {}

----------------------------------------------------------------------------
(* get_config_default_value_if_none *)

NoPath == <<>>

\* mutant: the batch size of the commented-out line 195
DefaultTable_oldBatchSize ==
    [ type |-> "none",
      tag |-> "now",
      previous_config_offset |-> 0,
      initial_learning_rate |-> <<3, 10000>>,
      epochs |-> 30,
      batch_size |-> 26,
      optimizer |-> "adam",
      self_training_samples_per_class |-> 10000,
      self_training_minimum_confidence |-> 0,
      self_training_plurality_only |-> TRUE,
      trained_model_path |-> <<>>,
      trained_model_type |-> "unknown",
      eval_results |-> EmptyDict,
      eval_har |-> FALSE ]

\* the default of each entry; initial_learning_rate 0.0003 is <<3, 10000>>, the
\* tag (a timestamp) is "now"
DefaultTable ==
    [ type |-> "none",
      tag |-> "now",
      previous_config_offset |-> 0,
      initial_learning_rate |-> <<3, 10000>>,
      epochs |-> 30,
      batch_size |-> 300,
      optimizer |-> "adam",
      self_training_samples_per_class |-> 10000,
      self_training_minimum_confidence |-> 0,
      self_training_plurality_only |-> TRUE,
      trained_model_path |-> NoPath,
      trained_model_type |-> "unknown",
      eval_results |-> EmptyDict,
      eval_har |-> FALSE ]

\* the values Python takes for false, for the entries whose values are not strings
FalsyValue ==
    [ previous_config_offset |-> 0,
      epochs |-> 0,
      batch_size |-> 0,
      self_training_samples_per_class |-> 0,
      self_training_minimum_confidence |-> 0,
      self_training_plurality_only |-> FALSE,
      trained_model_path |-> NoPath,
      eval_results |-> EmptyDict,
      eval_har |-> FALSE ]

\* mutant: `experiment_config.get(entry) or default_value`
get_config_default_value_if_none_ifTruthy(experiment_config, entry) ==
    IF /\ entry \in DOMAIN experiment_config
       /\ ~(entry \in DOMAIN FalsyValue /\ experiment_config[entry] = FalsyValue[entry])
    THEN experiment_config[entry]
    ELSE DefaultTable[entry]

\* the value returned
get_config_default_value_if_none(experiment_config, entry) ==
    IF entry \in DOMAIN experiment_config
    THEN experiment_config[entry]
    ELSE DefaultTable[entry]

\* mutant: set_value is ignored
config_after_default_always(experiment_config, entry, set_value) ==
    IF entry \in DOMAIN experiment_config
    THEN experiment_config
    ELSE Put(experiment_config, entry, DefaultTable[entry])

\* the dict after the call
config_after_default(experiment_config, entry, set_value) ==
    IF entry \in DOMAIN experiment_config \/ ~set_value
    THEN experiment_config
    ELSE Put(experiment_config, entry, DefaultTable[entry])

\* mutant: default_value starts as None, so an entry without a default is
\* returned as None and, with set_value, stored
get_config_default_value_if_none_call_noneDefault(experiment_config, entry, set_value) ==
    IF entry \notin DOMAIN experiment_config /\ entry \notin DOMAIN DefaultTable
    THEN [ raised |-> FALSE,
           value |-> {"None"},
           config |-> IF set_value THEN Put(experiment_config, entry, "None")
                      ELSE experiment_config ]
    ELSE [ raised |-> FALSE,
           value |-> {get_config_default_value_if_none(experiment_config, entry)},
           config |-> config_after_default(experiment_config, entry, set_value) ]

\* one call as a whole.  For an entry that is neither in the dict nor in the
\* if/elif chain, default_value is never bound: line 215 (set_value) or line
\* 218 raises UnboundLocalError before anything is stored.
get_config_default_value_if_none_call(experiment_config, entry, set_value) ==
    IF entry \notin DOMAIN experiment_config /\ entry \notin DOMAIN DefaultTable
    THEN [ raised |-> TRUE, value |-> {}, config |-> experiment_config ]
    ELSE [ raised |-> FALSE,
           value |-> {get_config_default_value_if_none(experiment_config, entry)},
           config |-> config_after_default(experiment_config, entry, set_value) ]

----------------------------------------------------------------------------
(* Artifacts, model handles, evaluation records *)

\* the file name composite_train_model returns for step k of fold f
TrainedPath(f, k) == <<"run", f, k>>

\* a path the config file itself may give
PresetPath == <<"file">>

\* tf.keras.models.load_model(path), and the sub-model views taken of it
LoadModel(path) == [artifact |-> path, view |-> "whole"]

extract_har_model(multitask_model) == [multitask_model EXCEPT !.view = "har"]

extract_core_model(composite_model) == [composite_model EXCEPT !.view = "core"]

\* the keys of the dict evaluate_model_simple returns
MetricKeys ==
    {"Confusion Matrix", "F1 Macro", "F1 Micro", "F1 Weighted", "Precision", "Recall",
     "Kappa"}

\* evaluate_model_simple(model.predict(data), labels): each metric is a value
\* fixed by the model, the data and the fold
Evaluate(m, data, fold) ==
    [key \in MetricKeys |-> [model |-> m, data |-> data, fold |-> fold]]

----------------------------------------------------------------------------
(* The dataset cache *)

LabelledOnly == [k \in {"labelled"} |-> 0]

\* load_unlabelled_dataset(prepared_datasets, ...), the g-th call of the fold:
\* `arg` is the caller's dict object after the call (line 168 assigns into it),
\* `ret` the new dict the call returns (lines 171-178).
load_unlabelled_dataset(datasets, g) ==
    LET arg == Put(datasets, "unlabelled", g)
    IN  [ arg |-> arg,
          ret |-> Put(Put(arg, "labelled_x_repeat", g), "unlabelled_combined", g) ]

----------------------------------------------------------------------------
(* The Python variables a step reads and writes, threaded through the      *)
(* branches of the loop body.  flow: "next" (the body ran to its end or    *)
(* hit `continue`), "break", "raise".                                      *)

Machine ==
    [ cfgs |-> experiment_configs,
      prev |-> previous_config,
      pd |-> prepared_datasets,
      model |-> model,
      opt |-> optimizer,
      ev |-> ev,
      conv |-> conv,
      y_true |-> y_true,
      y_pred |-> y_pred,
      loads |-> loadCalls,
      trained |-> trainReturned,
      written |-> pathWritten,
      resolved |-> FALSE,
      evaluated |-> {},
      flow |-> "next",
      msg |-> "" ]

Continue(m, text) == [m EXCEPT !.flow = "next", !.msg = text]

Break(m, text) == [m EXCEPT !.flow = "break", !.msg = text]

Raise(m, text) == [m EXCEPT !.flow = "raise", !.msg = text]

\* get_config_default_value_if_none(experiment_configs[k], entry) with set_value=True
Memo(m, k, entry) ==
    [m EXCEPT !.cfgs[k] = config_after_default(@, entry, TRUE)]

Assign(m, k, entry, value) == [m EXCEPT !.cfgs[k] = Put(@, entry, value)]

\* previous_config is None or its trained_model_path (set_value=False) is ''
NoPreviousModel(m) ==
    \A p \in m.prev :
        get_config_default_value_if_none(m.cfgs[p], "trained_model_path") = NoPath

PreviousPath(m) ==
    LET p == CHOOSE q \in m.prev : TRUE IN m.cfgs[p]["trained_model_path"]

\* get_config_default_value_if_none(previous_config, 'trained_model_type')
MemoPreviousType(m) ==
    LET p == CHOOSE q \in m.prev : TRUE IN Memo(m, p, "trained_model_type")

PreviousType(m) ==
    LET p == CHOOSE q \in m.prev : TRUE IN m.cfgs[p]["trained_model_type"]

\* if 'unlabelled' not in prepared_datasets:
\*     prepared_datasets, _ = load_unlabelled_dataset(prepared_datasets, ...)
LazyLoad(m) ==
    IF "unlabelled" \in DOMAIN m.pd
    THEN m
    ELSE [m EXCEPT !.pd = load_unlabelled_dataset(m.pd, m.loads + 1).ret,
                   !.loads = m.loads + 1]

----------------------------------------------------------------------------
(* The ERROR lines the dispatcher prints *)

EvalMissingError == "ERROR Evaluation model does not exist"

NoTeacherError == "ERROR No previous model for self-training"

----------------------------------------------------------------------------
(* Training *)

HarTypes == {"har_full_train", "har_full_fine_tune", "har_linear_train"}

SelfTypes == {"self_training", "self_har"}

\* mutant: every branch assigns 'har_model'
trained_model_type_of_alwaysHar(experiment_type) == "har_model"

\* the trained_model_type each branch assigns after its training call
trained_model_type_of(experiment_type) ==
    CASE experiment_type = "transform_train" -> "transform_model"
      [] experiment_type \in HarTypes -> "har_model"
      [] experiment_type = "self_training" -> "har_model"
      [] experiment_type = "self_har" -> "transform_with_har_model"

\* the exception of a composite_train_model call that does not return
TrainingFailed == "training failed"

\* mutant: trained_model_path is assigned before the training call is made
TrainAndRecord_assignFirst(m, k, experiment_type, trainOk) ==
    LET m1 == [m EXCEPT !.written = @ \cup {k}]
        m2 == Assign(m1, k, "trained_model_path", TrainedPath(j, k))
    IN  IF ~trainOk
        THEN Raise(m2, TrainingFailed)
        ELSE Assign([m2 EXCEPT !.trained = @ \cup {k}], k, "trained_model_type",
                    trained_model_type_of(experiment_type))

\* best, last = composite_train_model(...)
\* experiment_config['trained_model_path'] = best
\* experiment_config['trained_model_type'] = ...
\* trainOk: the call returns; otherwise it raises and the assignments are not reached
TrainAndRecord(m, k, experiment_type, trainOk) ==
    IF ~trainOk
    THEN Raise(m, TrainingFailed)
    ELSE LET m1 == [m EXCEPT !.trained = @ \cup {k}, !.written = @ \cup {k}]
             m2 == Assign(m1, k, "trained_model_path", TrainedPath(j, k))
         IN  Assign(m2, k, "trained_model_type", trained_model_type_of(experiment_type))

----------------------------------------------------------------------------
(* if experiment_type == 'eval_har': ... continue *)

\* mutant: `break` in place of `continue`
EvalMissing_breaks(m) == Break(m, EvalMissingError)

\* print("ERROR Evaluation model does not exist"); continue
EvalMissing(m) == Continue(m, EvalMissingError)

EvalHarBranch(m, k) ==
    IF NoPreviousModel(m)
    THEN EvalMissing(m)
    ELSE
      LET m1 == MemoPreviousType(m)
          t == PreviousType(m1)
          loaded == LoadModel(PreviousPath(m1))
      IN  IF t = "transform_with_har_model" /\ ~m1.opt
          THEN Raise(m1, "NameError: optimizer")
          ELSE
            LET m2 == IF t = "har_model"
                      THEN [m1 EXCEPT !.model = {loaded}]
                      ELSE IF t = "transform_with_har_model"
                      THEN [m1 EXCEPT !.model = {extract_har_model(loaded)}]
                      ELSE m1
            IN  IF m2.model = {}
                THEN Raise(m2, "NameError: model")
                ELSE
                  LET used == CHOOSE x \in m2.model : TRUE
                      eval_results == Evaluate(used, "labelled_test", j)
                  IN  Continue([Assign(m2, k, "eval_results", eval_results)
                                   EXCEPT !.evaluated = {used}], "")

----------------------------------------------------------------------------
(* if experiment_type == 'transform_train': *)

TransformTrainBranch(m, k, trainOk) ==
    LET m1 == LazyLoad(m)
    IN  IF "unlabelled_combined" \notin DOMAIN m1.pd
        THEN Raise(m1, "KeyError: unlabelled_combined")
        ELSE TrainAndRecord(m1, k, "transform_train", trainOk)

----------------------------------------------------------------------------
(* if experiment_type == 'har_full_train' or ... 'har_full_fine_tune' or   *)
(* ... 'har_linear_train':                                                 *)

HarTrainBranch(m, k, experiment_type, trainOk) ==
    LET m1 == IF NoPreviousModel(m) \/ experiment_type = "har_linear_train"
              THEN m
              ELSE MemoPreviousType(m)
    IN  TrainAndRecord(m1, k, experiment_type, trainOk)

----------------------------------------------------------------------------
(* if experiment_type == 'self_training' or experiment_type == 'self_har': *)

\* mutant: `continue` in place of `break`
TeacherMissing_continues(m) == Continue(m, NoTeacherError)

\* print("ERROR No previous model for self-training"); break
TeacherMissing(m) == Break(m, NoTeacherError)

SelfTrainBranch(m, k, experiment_type, trainOk) ==
    LET m1 == LazyLoad(m)
    IN  IF NoPreviousModel(m1)
        THEN TeacherMissing(m1)
        ELSE IF "unlabelled_combined" \notin DOMAIN m1.pd
        THEN Raise(m1, "KeyError: unlabelled_combined")
        ELSE
          LET m2 == Memo(m1, k, "self_training_samples_per_class")
              m3 == Memo(m2, k, "self_training_minimum_confidence")
              m4 == Memo(m3, k, "self_training_plurality_only")
          IN  TrainAndRecord(m4, k, experiment_type, trainOk)

----------------------------------------------------------------------------
(* if get_config_default_value_if_none(experiment_config, 'eval_har',      *)
(*                                      set_value=False): ...              *)

\* the positions whose evaluation also runs on the unlabelled dataset
UnlabelledEvalPositions == {2, 3}

\* mutant: the fold's block replaces the pooled list
Pool_overwrite(lists, k, block) == [lists EXCEPT ![k - 2] = <<block>>]

\* y_true[i - 2] = y_true[i - 2] + [...]: the fold's block is appended
Pool(lists, k, block) == [lists EXCEPT ![k - 2] = Append(@, block)]

\* np.argmax(prepared_datasets['labelled']['test'][1], axis=1).tolist() in fold f
TestLabels(f) == [data |-> "labelled_test", fold |-> f]

\* np.argmax(pred, axis=1).tolist(): the predictions of model m in fold f
TestPredictions(m, f) == [model |-> m, data |-> "labelled_test", fold |-> f]

\* variant: an unlabelled evaluation already held in ev[k] is kept
EvalFlagBlock_keepsFirst(m, k) ==
    IF ~get_config_default_value_if_none(m.cfgs[k], "eval_har")
    THEN m
    ELSE
      LET m1 == Memo(m, k, "trained_model_type")
          t == m1.cfgs[k]["trained_model_type"]
      IN  IF t \notin {"har_model", "transform_with_har_model"}
          THEN Continue(m1, "")
          ELSE
            LET loaded == LoadModel(m1.cfgs[k]["trained_model_path"])
                best_har_model == IF t = "har_model" THEN loaded
                                  ELSE extract_har_model(loaded)
                eval_results == Evaluate(best_har_model, "labelled_test", j)
                g == m1.loads + 1
                m2 == IF k \in UnlabelledEvalPositions
                      THEN [m1 EXCEPT
                              !.pd = load_unlabelled_dataset(m1.pd, g).arg,
                              !.loads = g,
                              !.ev[k] = IF @ = {}
                                        THEN {Evaluate(best_har_model, "unlabelled", j)}
                                        ELSE @,
                              !.conv[k] = Append(@,
                                  Evaluate(best_har_model, "unlabelled", j)["Confusion Matrix"]),
                              !.y_true = Pool(@, k, TestLabels(j)),
                              !.y_pred = Pool(@, k, TestPredictions(best_har_model, j))]
                      ELSE m1
            IN  [Assign(m2, k, "eval_results", eval_results)
                    EXCEPT !.evaluated = {best_har_model}]

EvalFlagBlock(m, k) ==
    IF ~get_config_default_value_if_none(m.cfgs[k], "eval_har")
    THEN m
    ELSE
      LET m1 == Memo(m, k, "trained_model_type")
          t == m1.cfgs[k]["trained_model_type"]
      IN  IF t \notin {"har_model", "transform_with_har_model"}
          THEN Continue(m1, "")
          ELSE
            LET loaded == LoadModel(m1.cfgs[k]["trained_model_path"])
                best_har_model == IF t = "har_model" THEN loaded
                                  ELSE extract_har_model(loaded)
                eval_results == Evaluate(best_har_model, "labelled_test", j)
                g == m1.loads + 1
                m2 == IF k \in UnlabelledEvalPositions
                      THEN [m1 EXCEPT
                              !.pd = load_unlabelled_dataset(m1.pd, g).arg,
                              !.loads = g,
                              !.ev[k] = {Evaluate(best_har_model, "unlabelled", j)},
                              !.conv[k] = Append(@,
                                  Evaluate(best_har_model, "unlabelled", j)["Confusion Matrix"]),
                              !.y_true = Pool(@, k, TestLabels(j)),
                              !.y_pred = Pool(@, k, TestPredictions(best_har_model, j))]
                      ELSE m1
            IN  [Assign(m2, k, "eval_results", eval_results)
                    EXCEPT !.evaluated = {best_har_model}]

----------------------------------------------------------------------------
(* The body of `for i, experiment_config in enumerate(experiment_configs)` *)

NumConfigs == Cardinality(DOMAIN experiment_configs)

\* mutant: the offset is used as an absolute index
ResolvePrevious_absolute(n, k, offset) == PyIndex(n, offset)

\* previous_config = experiment_configs[i - experiment_config['previous_config_offset']]
ResolvePrevious(n, k, offset) == PyIndex(n, k - offset)

\* mutant: the test for 'none' is made after the previous config and the tag
\* have been resolved
SkipStep_resolvesFirst(m, k) ==
    Continue(Memo(Memo(m, k, "previous_config_offset"), k, "tag"), "")

\* if experiment_type == 'none': continue
SkipStep(m, k) == Continue(m, "")

Dispatch(m0, k, trainOk) ==
    LET m1 == Memo(m0, k, "type")
        experiment_type == m1.cfgs[k]["type"]
    IN  IF experiment_type = "none"
        THEN SkipStep(m1, k)
        ELSE
          LET m2 == Memo(m1, k, "previous_config_offset")
              offset == m2.cfgs[k]["previous_config_offset"]
              target == ResolvePrevious(NumConfigs, k, offset)
          IN  IF offset # 0 /\ target = {}
              THEN Raise(m2, "IndexError")
              ELSE
                LET m3 == [Memo(m2, k, "tag") EXCEPT
                              !.prev = IF offset = 0 THEN {} ELSE target,
                              !.resolved = TRUE]
                IN  IF experiment_type = "eval_har"
                    THEN EvalHarBranch(m3, k)
                    ELSE
                      LET m4 == Memo(Memo(Memo(Memo(m3, k, "initial_learning_rate"),
                                     k, "epochs"), k, "batch_size"), k, "optimizer")
                          m5 == [m4 EXCEPT !.opt =
                                   @ \/ m4.cfgs[k]["optimizer"] \in {"adam", "sgd"}]
                          m6 == CASE experiment_type = "transform_train" ->
                                       TransformTrainBranch(m5, k, trainOk)
                                  [] experiment_type \in HarTypes ->
                                       HarTrainBranch(m5, k, experiment_type, trainOk)
                                  [] experiment_type \in SelfTypes ->
                                       SelfTrainBranch(m5, k, experiment_type, trainOk)
                      IN  IF m6.flow = "next" THEN EvalFlagBlock(m6, k) ELSE m6

\* the type of the config the loop is about to dispatch
NextType == get_config_default_value_if_none(experiment_configs[i], "type")

\* one iteration of the loop
DispatchStep ==
    /\ pc = "experiments"
    /\ \E trainOk \in BOOLEAN :
         \E m \in {Dispatch(Machine, i, trainOk)} :
             /\ experiment_configs' = m.cfgs
             /\ previous_config' = m.prev
             /\ prepared_datasets' = m.pd
             /\ model' = m.model
             /\ optimizer' = m.opt
             /\ ev' = m.ev
             /\ conv' = m.conv
             /\ y_true' = m.y_true
             /\ y_pred' = m.y_pred
             /\ loadCalls' = m.loads
             /\ trainReturned' = m.trained
             /\ pathWritten' = m.written
             /\ message' = m.msg
             /\ lastStep' = {[ fold |-> j, index |-> i, flow |-> m.flow,
                               type |-> m.cfgs[i]["type"],
                               resolved |-> m.resolved,
                               evaluated |-> m.evaluated ]}
             /\ pc' = IF m.flow = "raise" THEN "crashed"
                      ELSE IF m.flow = "break" \/ i + 1 = NumConfigs THEN "fold_end"
                      ELSE "experiments"
             /\ i' = IF m.flow = "next" THEN i + 1 ELSE i
    /\ UNCHANGED <<config_file, users, verbose, j, call, outcome,
                   performance_labelled_dataset, performance_unlabelled_dataset,
                   performance_unlabelled_dataset_dictionary>>

SkipNone ==
    /\ pc = "experiments" /\ NextType = "none"
    /\ DispatchStep

EvalHar ==
    /\ pc = "experiments" /\ NextType = "eval_har"
    /\ DispatchStep

TransformTrain ==
    /\ pc = "experiments" /\ NextType = "transform_train"
    /\ DispatchStep

HarTrain ==
    /\ pc = "experiments" /\ NextType \in HarTypes
    /\ DispatchStep

SelfTrain ==
    /\ pc = "experiments" /\ NextType \in SelfTypes
    /\ DispatchStep

----------------------------------------------------------------------------
(* After the experiment loop of a fold: the summary (lines 749-782), then  *)
(* the set-up of the next fold (lines 281-333).                            *)

\* what the summary loop raises at position k (2 or 3): it reads
\* config['eval_results'][key], then ev[k][key]
SummaryErrorAt(k) ==
    IF "eval_results" \notin DOMAIN experiment_configs[k]
    THEN "KeyError: eval_results"
    ELSE IF ev[k] = {}
    THEN "TypeError: ev[i] is None"
    ELSE ""

\* the exception the summary loop raises, "" if none
SummaryError ==
    IF 2 \in DOMAIN experiment_configs /\ SummaryErrorAt(2) # ""
    THEN SummaryErrorAt(2)
    ELSE IF 3 \in DOMAIN experiment_configs
    THEN SummaryErrorAt(3)
    ELSE ""

\* the keys of the accumulators of lines 270-273
AccumulatorKeys ==
    {"Confusion Matrix", "F1 Macro", "F1 Micro", "F1 Weighted", "Precision", "Recall",
     "Kappa"}

\* the experiments whose results are accumulated
AggregatedExperiments == {2, 3}

\* a number kept as the terms added to 0, in order, and the divisor applied
\* to their sum ({} while undivided)
ZeroSum == [addends |-> <<>>, divided_by |-> {}]

\* x = x + term
Add(x, term) == [x EXCEPT !.addends = Append(@, term)]

\* x = x / n
Divide(x, n) == [x EXCEPT !.divided_by = {n}]

\* lines 270-273
InitialPerformance == [e \in AggregatedExperiments |-> [k \in AccumulatorKeys |-> ZeroSum]]

\* performance[f"Experiment {i}"][k] = performance[f"Experiment {i}"][k] + results[i][k]
\* for i in 2, 3 within the list and every key but 'Confusion Matrix'
Accumulate(performance, results) ==
    [ e \in AggregatedExperiments |->
        IF e \notin DOMAIN experiment_configs
        THEN performance[e]
        ELSE [ k \in AccumulatorKeys |->
                 IF k = "Confusion Matrix"
                 THEN performance[e][k]
                 ELSE Add(performance[e][k], results[e][k]) ] ]

\* config['eval_results'] and ev[i] as the summary loop reads them
FoldResultsLabelled ==
    [ e \in AggregatedExperiments \cap DOMAIN experiment_configs |->
        experiment_configs[e]["eval_results"] ]

FoldResultsUnlabelled ==
    [ e \in AggregatedExperiments \cap DOMAIN experiment_configs |->
        CHOOSE r \in ev[e] : TRUE ]

\* sklearn.metrics.confusion_matrix(y_true, y_pred) of the pooled lists
confusion_matrix(true, pred) == [y_true |-> true, y_pred |-> pred]

\* lines 784-797: every key but 'Confusion Matrix' is divided by len(users);
\* then the matrix is set
Normalise(performance, matrix) ==
    [ e \in AggregatedExperiments |->
        [ k \in AccumulatorKeys |->
            IF k = "Confusion Matrix"
            THEN matrix[e]
            ELSE Divide(performance[e][k], users) ] ]

\* the summary of a fold run at verbosity v: whether it raises, and the sums
\* it leaves (lines 749-766 stand under `if verbose > 0`)
Summary(v) ==
    [ raised |-> v > 0 /\ SummaryError # "",
      labelled |-> IF v > 0 /\ SummaryError = ""
                   THEN Accumulate(performance_labelled_dataset, FoldResultsLabelled)
                   ELSE performance_labelled_dataset,
      unlabelled |-> IF v > 0 /\ SummaryError = ""
                     THEN Accumulate(performance_unlabelled_dataset, FoldResultsUnlabelled)
                     ELSE performance_unlabelled_dataset ]

\* whether the report after the fold loop raises at verbosity v: `path` of
\* line 798 is bound at line 768, under `if verbose > 0`
ReportRaises(v) == ~(v > 0)

\* variant: the config list is read once, before the fold loop
EndFold_keepsConfigs ==
    /\ pc = "fold_end"
    /\ performance_unlabelled_dataset_dictionary' =
          IF verbose > 0
          THEN Put(performance_unlabelled_dataset_dictionary, j, ev)
          ELSE performance_unlabelled_dataset_dictionary
    /\ performance_labelled_dataset' = Summary(verbose).labelled
    /\ performance_unlabelled_dataset' = Summary(verbose).unlabelled
    /\ IF Summary(verbose).raised
       THEN /\ pc' = "crashed"
            /\ message' = SummaryError
            /\ UNCHANGED <<j, i, experiment_configs, prepared_datasets, loadCalls,
                           trainReturned, pathWritten>>
       ELSE /\ message' = ""
            /\ j' = j + 1
            /\ IF j + 1 < users
               THEN /\ pc' = "experiments"
                    /\ i' = 0
                    /\ experiment_configs' = experiment_configs
                    /\ prepared_datasets' = LabelledOnly
                    /\ loadCalls' = 0
                    /\ trainReturned' = {}
                    /\ pathWritten' = {}
               ELSE /\ pc' = "sweep_end"
                    /\ UNCHANGED <<i, experiment_configs, prepared_datasets, loadCalls,
                                   trainReturned, pathWritten>>
    /\ UNCHANGED <<config_file, users, verbose, previous_config, model, optimizer, ev,
                   conv, y_true, y_pred, lastStep, call, outcome>>

\* the summary runs under `if verbose > 0`; an exception in it ends the program.
\* Its loop stores ev.copy() under the fold's index at every position, the
\* first included, so the copy is kept also when a later position raises.
EndFold ==
    /\ pc = "fold_end"
    /\ performance_unlabelled_dataset_dictionary' =
          IF verbose > 0
          THEN Put(performance_unlabelled_dataset_dictionary, j, ev)
          ELSE performance_unlabelled_dataset_dictionary
    /\ performance_labelled_dataset' = Summary(verbose).labelled
    /\ performance_unlabelled_dataset' = Summary(verbose).unlabelled
    /\ IF Summary(verbose).raised
       THEN /\ pc' = "crashed"
            /\ message' = SummaryError
            /\ UNCHANGED <<j, i, experiment_configs, prepared_datasets, loadCalls,
                           trainReturned, pathWritten>>
       ELSE /\ message' = ""
            /\ j' = j + 1
            /\ IF j + 1 < users
               THEN /\ pc' = "experiments"
                    /\ i' = 0
                    /\ experiment_configs' = config_file
                    /\ prepared_datasets' = LabelledOnly
                    /\ loadCalls' = 0
                    /\ trainReturned' = {}
                    /\ pathWritten' = {}
               ELSE /\ pc' = "sweep_end"
                    /\ UNCHANGED <<i, experiment_configs, prepared_datasets, loadCalls,
                                   trainReturned, pathWritten>>
    /\ UNCHANGED <<config_file, users, verbose, previous_config, model, optimizer, ev,
                   conv, y_true, y_pred, lastStep, call, outcome>>

\* lines 784-817: the sums are divided and the matrices set (784-797); then
\* the files are written under `path`, assigned only under `if verbose > 0`
FinishSweep ==
    /\ pc = "sweep_end"
    /\ performance_labelled_dataset' =
          Normalise(performance_labelled_dataset,
                    [e \in AggregatedExperiments |->
                        confusion_matrix(y_true[e - 2], y_pred[e - 2])])
    /\ performance_unlabelled_dataset' =
          Normalise(performance_unlabelled_dataset,
                    [e \in AggregatedExperiments |->
                        Divide([addends |-> conv[e], divided_by |-> {}], users)])
    /\ pc' = IF ReportRaises(verbose) THEN "crashed" ELSE "done"
    /\ message' = IF ReportRaises(verbose) THEN "NameError: path" ELSE ""
    /\ UNCHANGED <<config_file, users, verbose, j, i, experiment_configs,
                   previous_config, prepared_datasets, model, optimizer, ev, conv,
                   y_true, y_pred, loadCalls, trainReturned, pathWritten, lastStep,
                   call, outcome, performance_unlabelled_dataset_dictionary>>

----------------------------------------------------------------------------
(* The config files the dispatcher is run on *)

ConfigObjects ==
    { [type |-> "none"],
      [type |-> "har_full_train"],
      [type |-> "transform_train"],
      [type |-> "eval_har", previous_config_offset |-> 1],
      [type |-> "self_training", previous_config_offset |-> 1],
      [type |-> "self_har", previous_config_offset |-> 1, eval_har |-> TRUE],
      [type |-> "har_full_fine_tune", previous_config_offset |-> 1, eval_har |-> TRUE],
      [type |-> "har_linear_train", previous_config_offset |-> 2],
      [type |-> "har_full_train", trained_model_path |-> PresetPath],
      [trained_model_path |-> PresetPath, trained_model_type |-> "transform_with_har_model"] }

ConfigFiles == UNION { [0 .. (n - 1) -> ConfigObjects] : n \in 1 .. MaxConfigs }

\* the state when the experiment loop of the first fold starts
Init ==
    /\ config_file \in ConfigFiles
    /\ users = MaxUsers
    /\ verbose \in {0, 1}
    /\ pc = "experiments"
    /\ j = 0
    /\ i = 0
    /\ experiment_configs = config_file
    /\ previous_config = {}
    /\ prepared_datasets = LabelledOnly
    /\ model = {}
    /\ optimizer = FALSE
    /\ ev = [k \in 0 .. 3 |-> {}]
    /\ conv = [k \in 0 .. 3 |-> <<>>]
    /\ y_true = [k \in 0 .. 1 |-> <<>>]
    /\ y_pred = [k \in 0 .. 1 |-> <<>>]
    /\ performance_labelled_dataset = InitialPerformance
    /\ performance_unlabelled_dataset = InitialPerformance
    /\ performance_unlabelled_dataset_dictionary = EmptyDict
    /\ loadCalls = 0
    /\ trainReturned = {}
    /\ pathWritten = {}
    /\ lastStep = {}
    /\ message = ""
    /\ call = [fn |-> "__main__"]
    /\ outcome = {}

Next ==
    \/ SkipNone
    \/ EvalHar
    \/ TransformTrain
    \/ HarTrain
    \/ SelfTrain
    \/ EndFold
    \/ FinishSweep

Spec == Init /\ [][Next]_vars

----------------------------------------------------------------------------
(* The functions of the program called on their own *)

\* the main program is not running
MainIdle ==
    /\ config_file = EmptyDict
    /\ users = 0
    /\ verbose = 1
    /\ pc = "idle"
    /\ j = 0
    /\ i = 0
    /\ experiment_configs = EmptyDict
    /\ previous_config = {}
    /\ prepared_datasets = EmptyDict
    /\ model = {}
    /\ optimizer = FALSE
    /\ ev = [k \in 0 .. 3 |-> {}]
    /\ conv = [k \in 0 .. 3 |-> <<>>]
    /\ y_true = [k \in 0 .. 1 |-> <<>>]
    /\ y_pred = [k \in 0 .. 1 |-> <<>>]
    /\ performance_labelled_dataset = InitialPerformance
    /\ performance_unlabelled_dataset = InitialPerformance
    /\ performance_unlabelled_dataset_dictionary = EmptyDict
    /\ loadCalls = 0
    /\ trainReturned = {}
    /\ pathWritten = {}
    /\ lastStep = {}
    /\ message = ""

\* entries the if/elif chain of lines 184-212 does not know
UnknownEntries == {"learning_rate", "dropout"}

\* dicts a config file can hold, among them fields stored with a false value
ResolverConfigs ==
    ConfigObjects \cup
    { [type |-> "har_full_train", epochs |-> 0, batch_size |-> 0, eval_har |-> FALSE,
       trained_model_path |-> NoPath, eval_results |-> EmptyDict,
       self_training_plurality_only |-> FALSE],
      [type |-> "self_har", previous_config_offset |-> 0, optimizer |-> "sgd",
       initial_learning_rate |-> <<1, 1000>>, self_training_samples_per_class |-> 0,
       learning_rate |-> "None"] }

InitResolver ==
    /\ MainIdle
    /\ call \in [ fn : {"get_config_default_value_if_none"},
                   experiment_config : ResolverConfigs,
                   entry : DOMAIN DefaultTable \cup UnknownEntries,
                   set_value : BOOLEAN ]
    /\ outcome = {}

\* the call is made
Resolve ==
    /\ call.fn = "get_config_default_value_if_none"
    /\ outcome = {}
    /\ outcome' = {get_config_default_value_if_none_call(call.experiment_config,
                                                         call.entry, call.set_value)}
    /\ UNCHANGED <<mainVars, call>>

NextResolver == Resolve

SpecResolver == InitResolver /\ [][NextResolver]_vars

----------------------------------------------------------------------------
(* prepare_dataset and load_unlabelled_dataset on the contents of the       *)
(* datasets.  A dataset file is its label_list (a list of class names, here *)
(* numbers, whose order is the sort order) and the number of windows it     *)
(* yields for training; an array of windows is its length.                  *)

MaxNames == 3

\* np.sort(label_list): position p holds the name with fewer than p entries
\* below it and at least p entries not above it
Sort(label_list) ==
    [ p \in DOMAIN label_list |->
        CHOOSE l \in { label_list[q] : q \in DOMAIN label_list } :
            /\ Cardinality({q \in DOMAIN label_list : label_list[q] < l}) < p
            /\ Cardinality({q \in DOMAIN label_list : label_list[q] <= l}) >= p ]

\* label_map = dict([(l, i) for i, l in enumerate(np.sort(label_list))]):
\* of the pairs with the same name the last one stays in the dict
enumerate_sorted(label_list) ==
    LET sorted == Sort(label_list)
    IN  [ l \in { label_list[q] : q \in DOMAIN label_list } |->
            (CHOOSE p \in DOMAIN sorted :
                /\ sorted[p] = l
                /\ \A q \in DOMAIN sorted : sorted[q] = l => q <= p) - 1 ]

\* mutant: the target is ignored
prepare_dataset_ownLabels(dataset, target) ==
    [ train |-> dataset.windows,
      label_map |-> enumerate_sorted(dataset.label_list),
      output_shape |-> Len(dataset.label_list) ]

\* prepare_dataset(..., target): target is {} for the default 0, {m} for a
\* label_map m passed by the caller
prepare_dataset(dataset, target) ==
    LET label_map == IF target # {}
                     THEN CHOOSE m \in target : TRUE
                     ELSE enumerate_sorted(dataset.label_list)
        output_shape == IF target # {}
                        THEN Cardinality(DOMAIN label_map)
                        ELSE Len(dataset.label_list)
    IN  [ train |-> dataset.windows,
          label_map |-> label_map,
          output_shape |-> output_shape ]

\* array[:stop] for stop >= 0, on the length of the array
SliceTo(n, stop) == IF stop < n THEN stop ELSE n

generate_unlabelled_datasets_variations(unlabelled_data_x, labelled_data_x, labelled_repeat) ==
    LET labelled_data_repeat == labelled_data_x * labelled_repeat
    IN  [ labelled_x_repeat |-> labelled_data_repeat,
          unlabelled_combined |-> unlabelled_data_x + labelled_data_repeat ]

\* load_unlabelled_dataset on a cache that holds the labelled bundle;
\* max_unlabelled_windows is {} for None.  `prepared` is what the inner
\* prepare_dataset call returned, `arg` the caller's dict after the call,
\* `ret` the dict returned and `label` the label array returned with it: the
\* second half of the 'train' pair, as line 168 unpacked it.
load_unlabelled_dataset_windows(datasets, unlabelled_dataset, labelled_repeat, max_unlabelled_windows) ==
    LET prepared == prepare_dataset(unlabelled_dataset,
                                    {datasets["labelled"].label_map})
        unlabelled == IF max_unlabelled_windows = {}
                      THEN prepared.train
                      ELSE SliceTo(prepared.train,
                                   CHOOSE stop \in max_unlabelled_windows : TRUE)
        arg == Put(datasets, "unlabelled", unlabelled)
        variations == generate_unlabelled_datasets_variations(
                          unlabelled, datasets["labelled"].train, labelled_repeat)
    IN  [ prepared |-> prepared,
          arg |-> arg,
          ret |-> Put(Put(arg, "labelled_x_repeat", variations.labelled_x_repeat),
                      "unlabelled_combined", variations.unlabelled_combined),
          label |-> prepared.train ]

\* the names of S in a list
RECURSIVE ListOf(_)
ListOf(S) ==
    IF S = {} THEN <<>>
    ELSE LET l == CHOOSE x \in S : TRUE IN Append(ListOf(S \ {l}), l)

\* the dataset files the fold loop is run on: each class is named once
DatasetFiles ==
    [ label_list : { ListOf(S) : S \in (SUBSET (1 .. MaxLabel)) \ {{}} },
      windows : 0 .. MaxWindows ]

\* the label lists a dataset file can hold, repeated names included
LabelLists == UNION { [1 .. n -> 1 .. MaxLabel] : n \in 1 .. MaxNames }

InitDatasets ==
    /\ MainIdle
    /\ \/ call \in [ fn : {"load_unlabelled_dataset"},
                     labelled : DatasetFiles,
                     unlabelled : DatasetFiles,
                     labelled_repeat : 0 .. MaxRepeat,
                     max_unlabelled_windows :
                         {{}} \cup {{stop} : stop \in 0 .. MaxWindows} ]
       \/ call \in [ fn : {"prepare_dataset"},
                     dataset : [label_list : LabelLists, windows : {MaxWindows}],
                     target : {{}} \cup { {enumerate_sorted(l)} : l \in LabelLists } ]
    /\ outcome = {}

\* prepared_datasets = {}; prepared_datasets['labelled'] = prepare_dataset(...)
\* and then the first load_unlabelled_dataset(prepared_datasets, ...) of the fold
LoadUnlabelled ==
    /\ call.fn = "load_unlabelled_dataset"
    /\ outcome = {}
    /\ outcome' =
          {load_unlabelled_dataset_windows(
               [k \in {"labelled"} |-> prepare_dataset(call.labelled, {})],
               call.unlabelled, call.labelled_repeat, call.max_unlabelled_windows)}
    /\ UNCHANGED <<mainVars, call>>

\* prepare_dataset on a dataset file, without a target (line 316) or with
\* the label_map of another file as target (line 168)
PrepareDataset ==
    /\ call.fn = "prepare_dataset"
    /\ outcome = {}
    /\ outcome' = {prepare_dataset(call.dataset, call.target)}
    /\ UNCHANGED <<mainVars, call>>

NextDatasets == LoadUnlabelled \/ PrepareDataset

SpecDatasets == InitDatasets /\ [][NextDatasets]_vars

----------------------------------------------------------------------------
(* The pseudo-label selector, pick_top_samples_per_class_np, and its call.  *)
(* Probabilities are in tenths; y_prob is a sequence of probability         *)
(* vectors, one per sample of the pool; classes are numbered from 1.        *)

\* np.argmax: the first class of highest probability
argmax(prob) ==
    CHOOSE c \in DOMAIN prob :
        /\ \A d \in DOMAIN prob : prob[d] <= prob[c]
        /\ \A d \in DOMAIN prob : d < c => prob[d] < prob[c]

\* the classes of the probability vectors
ClassesOf(y_prob) == UNION {DOMAIN y_prob[s] : s \in DOMAIN y_prob}

\* the samples that may be kept for class c: confidence (the probability of
\* c) not below the threshold and, with plurality_only, c the predicted class
Confident(y_prob, c, minimum_threshold, plurality_only) ==
    { s \in DOMAIN y_prob :
        /\ c \in DOMAIN y_prob[s]
        /\ y_prob[s][c] >= minimum_threshold
        /\ plurality_only => argmax(y_prob[s]) = c }

\* the selected (sample, class) pairs: per class the num_samples_per_class
\* candidates of highest confidence, earlier samples first among equals
pick_top_samples_per_class_np(y_prob, num_samples_per_class, minimum_threshold, plurality_only) ==
    { sc \in (DOMAIN y_prob) \X ClassesOf(y_prob) :
        LET s == sc[1]
            c == sc[2]
            candidates == Confident(y_prob, c, minimum_threshold, plurality_only)
            ahead == { t \in candidates :
                         \/ y_prob[t][c] > y_prob[s][c]
                         \/ y_prob[t][c] = y_prob[s][c] /\ t < s }
        IN  s \in candidates /\ Cardinality(ahead) < num_samples_per_class }

\* mutant: the three parameters are left at their defaults
select_pseudo_labels_defaults(experiment_config, y_prob) ==
    pick_top_samples_per_class_np(
        y_prob,
        DefaultTable["self_training_samples_per_class"],
        DefaultTable["self_training_minimum_confidence"],
        DefaultTable["self_training_plurality_only"])

\* np_self_labelled = pick_top_samples_per_class_np(..., num_samples_per_class=
\*     get_config_default_value_if_none(experiment_config, ...), ...)
select_pseudo_labels(experiment_config, y_prob) ==
    pick_top_samples_per_class_np(
        y_prob,
        get_config_default_value_if_none(experiment_config,
                                         "self_training_samples_per_class"),
        get_config_default_value_if_none(experiment_config,
                                         "self_training_minimum_confidence"),
        get_config_default_value_if_none(experiment_config,
                                         "self_training_plurality_only"))

\* what a teacher can predict for one sample, two classes
ProbabilityVectors == {<<9, 1>>, <<6, 4>>, <<5, 5>>, <<2, 8>>, <<0, 10>>}

\* the self_training fields a config file can give
SelectorConfigs ==
    { c \in UNION { [d -> 0 .. 6] : d \in SUBSET {"self_training_samples_per_class",
                                                  "self_training_minimum_confidence",
                                                  "self_training_plurality_only"} } :
        /\ "self_training_samples_per_class" \in DOMAIN c =>
              c["self_training_samples_per_class"] \in 1 .. MaxPerClass
        /\ "self_training_minimum_confidence" \in DOMAIN c =>
              c["self_training_minimum_confidence"] \in {5, 6}
        /\ "self_training_plurality_only" \in DOMAIN c =>
              c["self_training_plurality_only"] = 0 }

\* the stored 0 of self_training_plurality_only is the JSON false
AsConfig(c) ==
    [f \in DOMAIN c |-> IF f = "self_training_plurality_only" THEN FALSE ELSE c[f]]

InitSelector ==
    /\ MainIdle
    /\ call \in [ fn : {"pick_top_samples_per_class_np"},
                   experiment_config : {AsConfig(c) : c \in SelectorConfigs},
                   y_prob : UNION { [1 .. n -> ProbabilityVectors] :
                                      n \in 0 .. MaxSamples } ]
    /\ outcome = {}

\* the call of lines 537-544 is made
SelectPseudoLabels ==
    /\ call.fn = "pick_top_samples_per_class_np"
    /\ outcome = {}
    /\ outcome' = {[ selected |-> select_pseudo_labels(call.experiment_config,
                                                       call.y_prob) ]}
    /\ UNCHANGED <<mainVars, call>>

NextSelector == SelectPseudoLabels

SpecSelector == InitSelector /\ [][NextSelector]_vars

----------------------------------------------------------------------------
(* Claims *)

\* the artifact types a HAR model can be obtained from
HarCapable == {"har_model", "transform_with_har_model"}

\* the last dispatched step belongs to the configs now in experiment_configs
Current(s) == s.fold = j

\* the position previous_config aliases
PreviousPosition == CHOOSE p \in previous_config : TRUE

\* C1: whenever a step at position i resolves its previous config with a
\* nonzero previous_config_offset, the config obtained is at a position
\* strictly less than i; with offset 0 (or absent) there is no previous config.
C1_PreviousIsEarlier ==
    \A s \in lastStep :
        (Current(s) /\ s.resolved) =>
            IF experiment_configs[s.index]["previous_config_offset"] = 0
            THEN previous_config = {}
            ELSE previous_config # {} /\ PreviousPosition < s.index

\* the config list of C2
C2List ==
    [ k \in 0 .. 2 |->
        CASE k = 0 -> [type |-> "har_full_train"]
          [] k = 1 -> [type |-> "eval_har", previous_config_offset |-> 1]
          [] k = 2 -> [type |-> "self_training", previous_config_offset |-> 1] ]

\* C2: for [har_full_train, eval_har(offset=1), self_training(offset=1)], steps
\* 0 and 1 complete (step 0 is trained, step 1 holds the evaluation of step 0's
\* artifact) and step 2 reports the missing dependency: its previous config is
\* step 1, which has no trained_model_path, so step 2 trains nothing and never
\* gets a trained_model_path.
C2_MissingDependency ==
    config_file = C2List =>
        /\ "trained_model_path" \notin DOMAIN experiment_configs[2]
        /\ 2 \notin trainReturned
        /\ (i = 2 /\ pc \in {"experiments", "fold_end"}) =>
              /\ 0 \in trainReturned
              /\ "trained_model_path" \in DOMAIN experiment_configs[0]
              /\ experiment_configs[0]["trained_model_path"] = TrainedPath(j, 0)
              /\ "eval_results" \in DOMAIN experiment_configs[1]
              /\ experiment_configs[1]["eval_results"]["F1 Macro"].model.artifact
                    = TrainedPath(j, 0)
              /\ "trained_model_path" \notin DOMAIN experiment_configs[1]
        /\ \A s \in lastStep :
              (Current(s) /\ s.index = 2) =>
                  /\ s.flow = "break"
                  /\ previous_config = {1}
                  /\ pc = "fold_end" => message = NoTeacherError

C2_Witness ==
    /\ config_file = C2List
    /\ pc = "fold_end"
    /\ message = NoTeacherError
    /\ \E s \in lastStep : s.index = 2 /\ s.type = "self_training"

\* a previous_config_offset that points forward or to the step itself
HasBadOffset(cfgs) ==
    \E k \in DOMAIN cfgs :
        LET offset == get_config_default_value_if_none(cfgs[k], "previous_config_offset")
        IN  offset < 0 \/ offset > k

\* C3: if any config has a previous_config_offset that points forward or to
\* the step itself, the run reports a configuration error and no training or
\* evaluation step of the list is executed.
C3_BadOffsetRejected ==
    HasBadOffset(config_file) =>
        /\ trainReturned = {}
        /\ \A k \in DOMAIN experiment_configs :
              "eval_results" \notin DOMAIN experiment_configs[k]

\* C4: once a self_training or self_har step has found no previous artifact,
\* no later step of the same fold is dispatched and no config of that fold
\* changes any more.
C4_MissingTeacherEndsFold ==
    [][ (message = NoTeacherError /\ j' = j) =>
            /\ experiment_configs' = experiment_configs
            /\ lastStep' = lastStep
            /\ trainReturned' = trainReturned ]_vars

C4_Witness ==
    /\ message = NoTeacherError
    /\ pc = "fold_end"
    /\ \E s \in lastStep :
          /\ s.type \in SelfTypes
          /\ s.index + 1 < NumConfigs
          /\ get_config_default_value_if_none(experiment_configs[s.index + 1], "type") # "none"

\* the eval_har step at position i takes the branch "model does not exist"
EvalMissingStep ==
    /\ pc = "experiments"
    /\ NextType = "eval_har"
    /\ message' = EvalMissingError

\* the dispatcher goes on with the next position of the same fold
GoesOn ==
    /\ j' = j
    /\ i' = i + 1
    /\ pc' = IF i + 1 = NumConfigs THEN "fold_end" ELSE "experiments"

\* C5 as stated: an eval_har step whose previous config is absent or has an
\* empty trained_model_path writes no eval_results, changes no config, and the
\* dispatcher goes on to the next step of the fold.
C5_AsStated ==
    [][ EvalMissingStep => (experiment_configs' = experiment_configs /\ GoesOn) ]_vars

\* C5 amended: such a step writes no eval_results, changes no other config and
\* no field already present in its own config; the only change is that the
\* defaults of previous_config_offset and tag are memoized in its own config
\* when absent; and the dispatcher goes on to the next step of the fold.
C5_EvalMissingIsNonFatal ==
    [][ EvalMissingStep =>
          /\ GoesOn
          /\ \A k \in DOMAIN experiment_configs \ {i} :
                experiment_configs'[k] = experiment_configs[k]
          /\ \A f \in DOMAIN experiment_configs[i] :
                /\ f \in DOMAIN experiment_configs'[i]
                /\ experiment_configs'[i][f] = experiment_configs[i][f]
          /\ \A f \in DOMAIN experiment_configs'[i] \ DOMAIN experiment_configs[i] :
                /\ f \in {"previous_config_offset", "tag"}
                /\ experiment_configs'[i][f] = DefaultTable[f]
          /\ UNCHANGED <<prepared_datasets, model, ev, trainReturned>> ]_vars

C5_Witness ==
    /\ message = EvalMissingError
    /\ pc = "experiments"
    /\ \E s \in lastStep :
          /\ s.type = "eval_har"
          /\ i = s.index + 1
          /\ "tag" \notin DOMAIN config_file[s.index]
          /\ "eval_results" \notin DOMAIN experiment_configs[s.index]

\* the trained_model_path of the config previous_config aliases ('' if absent)
PreviousPathNow ==
    get_config_default_value_if_none(experiment_configs[PreviousPosition],
                                     "trained_model_path")

PreviousTypeNow ==
    get_config_default_value_if_none(experiment_configs[PreviousPosition],
                                     "trained_model_type")

TrainingTypes == {"transform_train"} \cup HarTypes \cup SelfTypes

\* C6: whenever a HAR sub-model has to be obtained for evaluation (an eval_har
\* step, or the eval_har flag after a training step) from an artifact whose
\* trained_model_type is neither har_model nor transform_with_har_model, the
\* step fails with an error: no model is evaluated and no eval_results are
\* written for that step.
C6_WrongTypeFailsLoudly ==
    \A s \in lastStep :
        /\ ( /\ Current(s)
             /\ s.type = "eval_har"
             /\ s.resolved
             /\ previous_config # {}
             /\ PreviousPathNow # NoPath
             /\ PreviousTypeNow \notin HarCapable )
           => /\ s.flow = "raise"
              /\ s.evaluated = {}
              /\ "eval_results" \notin DOMAIN experiment_configs[s.index]
        /\ ( /\ Current(s)
             /\ s.type \in TrainingTypes
             /\ s.index \in trainReturned
             /\ get_config_default_value_if_none(experiment_configs[s.index], "eval_har")
             /\ experiment_configs[s.index]["trained_model_type"] \notin HarCapable )
           => /\ s.flow = "raise"
              /\ s.evaluated = {}
              /\ "eval_results" \notin DOMAIN experiment_configs[s.index]

\* a config's trained_model_path differs from what the config file gave it
PathAssigned(k) ==
    /\ "trained_model_path" \in DOMAIN experiment_configs[k]
    /\ \/ "trained_model_path" \notin DOMAIN config_file[k]
       \/ experiment_configs[k]["trained_model_path"] # config_file[k]["trained_model_path"]

\* C7: in every state of a fold, a config's trained_model_path has been
\* written only if that config's training call has returned; a step that is
\* skipped, aborted for a missing dependency, or whose training fails leaves
\* its trained_model_path unwritten.
C7_PathOnlyAfterTraining ==
    /\ pathWritten \subseteq trainReturned
    /\ \A k \in DOMAIN experiment_configs : PathAssigned(k) => k \in trainReturned
    /\ \A s \in lastStep :
          ( /\ Current(s)
            /\ \/ s.type = "none"
               \/ s.flow = "break"
               \/ message \in {TrainingFailed, NoTeacherError, EvalMissingError} )
          => ~PathAssigned(s.index)

C7_Witness ==
    /\ pc = "crashed"
    /\ message = TrainingFailed
    /\ \E k \in trainReturned : PathAssigned(k)
    /\ \E s \in lastStep : s.index \notin trainReturned /\ ~PathAssigned(s.index)

\* C8: after a training step completes, the trained_model_type in its config
\* is determined by the experiment type alone: transform_train gives
\* transform_model; the three har_* types and self_training give har_model;
\* self_har gives transform_with_har_model.
C8_TypeFollowsExperimentType ==
    \A k \in trainReturned :
        LET t == experiment_configs[k]["type"]
            tag == experiment_configs[k]["trained_model_type"]
        IN  /\ t = "transform_train" => tag = "transform_model"
            /\ t \in HarTypes => tag = "har_model"
            /\ t = "self_training" => tag = "har_model"
            /\ t = "self_har" => tag = "transform_with_har_model"
            /\ t \in TrainingTypes

C8_Witness ==
    /\ \E k \in trainReturned : experiment_configs[k]["type"] = "transform_train"
    /\ \E k \in trainReturned : experiment_configs[k]["type"] = "self_training"
    /\ \E k \in trainReturned : experiment_configs[k]["type"] = "self_har"
    /\ \E k \in trainReturned : experiment_configs[k]["type"] \in HarTypes

\* the fields a step records its result in
ResultFields == {"trained_model_path", "trained_model_type", "eval_results"}

\* C9: within one fold, each config's trained_model_path, trained_model_type
\* and eval_results are each written at most once, and once written they keep
\* the same value for the rest of the fold.
C9_WrittenOnce ==
    [][ j' = j =>
          \A k \in DOMAIN experiment_configs :
            \A f \in ResultFields :
              (f \in DOMAIN experiment_configs[k] /\ f \notin DOMAIN config_file[k])
                => /\ f \in DOMAIN experiment_configs'[k]
                   /\ experiment_configs'[k][f] = experiment_configs[k][f] ]_vars

\* C10: within one fold the unlabelled pool of the dataset cache is loaded at
\* most once, by the first step that needs it; no later step of the fold
\* reloads or modifies it.
C10_PoolLoadedOnce ==
    [][ (j' = j /\ "unlabelled" \in DOMAIN prepared_datasets) =>
            /\ prepared_datasets' = prepared_datasets
            /\ loadCalls' = loadCalls ]_vars

\* the config list of C11
C11List ==
    [ k \in 0 .. 1 |->
        IF k = 0 THEN [type |-> "har_full_train"]
        ELSE [type |-> "eval_har", previous_config_offset |-> 1] ]

\* the positions whose config has a non-empty trained_model_path
WithArtifact ==
    { k \in DOMAIN experiment_configs :
        get_config_default_value_if_none(experiment_configs[k], "trained_model_path")
            # NoPath }

\* the positions whose config has a populated eval_results
WithResults ==
    { k \in DOMAIN experiment_configs :
        DOMAIN get_config_default_value_if_none(experiment_configs[k], "eval_results")
            # {} }

\* C11: for the config list [har_full_train, eval_har(offset=1)], after one
\* fold has been dispatched exactly one config (step 0) has a non-empty
\* trained_model_path and exactly one config (step 1) has a populated
\* eval_results, with keys F1 Macro, F1 Micro, F1 Weighted, Precision, Recall,
\* Kappa and Confusion Matrix.
C11_OneArtifactOneEvaluation ==
    (config_file = C11List /\ pc = "fold_end") =>
        /\ WithArtifact = {0}
        /\ WithResults = {1}
        /\ DOMAIN experiment_configs[1]["eval_results"] =
              {"F1 Macro", "F1 Micro", "F1 Weighted", "Precision", "Recall", "Kappa",
               "Confusion Matrix"}
        /\ experiment_configs[1]["eval_results"]["Kappa"].model.artifact =
              experiment_configs[0]["trained_model_path"]

C11_Witness ==
    /\ config_file = C11List
    /\ pc = "fold_end"
    /\ j = 1
    /\ WithArtifact = {0}

\* the eval_har step at position i finds, in the config its offset resolves
\* to, a non-empty trained_model_path of a type a HAR model can be taken from
EvalHarWithModel ==
    /\ pc = "experiments"
    /\ NextType = "eval_har"
    /\ \E s \in lastStep' : s.index = i /\ s.fold = j /\ s.resolved
    /\ \E p \in previous_config' :
          /\ get_config_default_value_if_none(experiment_configs[p], "trained_model_path")
                # NoPath
          /\ get_config_default_value_if_none(experiment_configs[p], "trained_model_type")
                \in HarCapable

\* a field of the config at position i is the same before and after the step
SameField(f) ==
    /\ f \in DOMAIN experiment_configs'[i] <=> f \in DOMAIN experiment_configs[i]
    /\ f \in DOMAIN experiment_configs[i] =>
          experiment_configs'[i][f] = experiment_configs[i][f]

\* C12: an eval_har step whose previous config has a non-empty
\* trained_model_path of type har_model or transform_with_har_model writes the
\* evaluation metrics of that artifact into the eval_results of its own config,
\* and writes neither trained_model_path nor trained_model_type on its own
\* config.
C12_EvalHarWritesOnlyResults ==
    [][ EvalHarWithModel =>
          /\ "eval_results" \in DOMAIN experiment_configs'[i]
          /\ \A p \in previous_config' :
                experiment_configs'[i]["eval_results"]["F1 Macro"].model.artifact =
                    experiment_configs[p]["trained_model_path"]
          /\ SameField("trained_model_path")
          /\ SameField("trained_model_type") ]_vars

\* the step at position i is a step of type none
NoneStep == pc = "experiments" /\ NextType = "none"

\* C13 as stated: a step whose type is none (explicitly, or because the type
\* field is absent) has no side effect: every experiment config including its
\* own, the dataset cache and the accumulators are as before the step.
C13_AsStated ==
    [][ NoneStep =>
          /\ experiment_configs' = experiment_configs
          /\ UNCHANGED <<prepared_datasets, loadCalls, ev>> ]_vars

\* C13 amended: such a step leaves every other config, the dataset cache and
\* the accumulators as they were; its own config is unchanged when type is
\* explicit, and gains exactly the field type = 'none' when type is absent.
C13_NoneStepOnlyMemoizesType ==
    [][ NoneStep =>
          /\ experiment_configs' =
                [experiment_configs EXCEPT ![i] =
                    IF "type" \in DOMAIN @ THEN @ ELSE Put(@, "type", "none")]
          /\ UNCHANGED <<prepared_datasets, loadCalls, ev>> ]_vars

C13_Witness ==
    /\ \E s \in lastStep : s.type = "none" /\ s.fold = j /\ i = s.index + 1
                            /\ "type" \notin DOMAIN config_file[s.index]
                            /\ experiment_configs[s.index] # config_file[s.index]
    /\ "unlabelled" \in DOMAIN prepared_datasets

\* the call of get_config_default_value_if_none made, with what it did
Resolved(o) == call.fn = "get_config_default_value_if_none" /\ o \in outcome

\* the default table as the documentation gives it
DocumentedDefaults ==
    [ type |-> "none",
      previous_config_offset |-> 0,
      initial_learning_rate |-> <<3, 10000>>,
      epochs |-> 30,
      batch_size |-> 300,
      optimizer |-> "adam",
      self_training_samples_per_class |-> 10000,
      self_training_minimum_confidence |-> 0,
      self_training_plurality_only |-> TRUE,
      trained_model_path |-> NoPath,
      trained_model_type |-> "unknown",
      eval_results |-> EmptyDict,
      eval_har |-> FALSE ]

\* C14: for every field of the default table, get_config_default_value_if_none
\* on a config lacking the field returns exactly the documented default and,
\* after the call, the config contains the field with that value.
C14_DefaultReturnedAndStored ==
    \A o \in outcome :
        ( /\ Resolved(o)
          /\ call.entry \in DOMAIN DocumentedDefaults
          /\ call.entry \notin DOMAIN call.experiment_config
          /\ call.set_value )
        => /\ ~o.raised
           /\ o.value = {DocumentedDefaults[call.entry]}
           /\ call.entry \in DOMAIN o.config
           /\ o.config[call.entry] = DocumentedDefaults[call.entry]
           /\ \A f \in DOMAIN call.experiment_config :
                 f \in DOMAIN o.config /\ o.config[f] = call.experiment_config[f]

C14_Witness ==
    \E o \in outcome :
        /\ Resolved(o)
        /\ call.entry = "batch_size"
        /\ call.set_value
        /\ call.experiment_config = [type |-> "har_full_train"]
        /\ o.config = [type |-> "har_full_train", batch_size |-> 300]

\* C15: resolving a field that has no entry in the default table and is absent
\* from the config raises an error instead of returning a value, and the config
\* is left unchanged (the unknown field is not inserted).
C15_UnknownFieldRaises ==
    \A o \in outcome :
        ( /\ Resolved(o)
          /\ call.entry \in UnknownEntries
          /\ call.entry \notin DOMAIN call.experiment_config )
        => /\ o.raised
           /\ o.value = {}
           /\ o.config = call.experiment_config

C15_Witness ==
    \E o \in outcome :
        /\ Resolved(o)
        /\ call.entry = "dropout"
        /\ call.set_value
        /\ o.raised

\* C16: when the field is present in the config, the stored value is returned
\* whatever it is (0, '', false and an empty map included) and the config is
\* left unchanged, for either value of set_value.
C16_PresentFieldReturned ==
    \A o \in outcome :
        (Resolved(o) /\ call.entry \in DOMAIN call.experiment_config)
        => /\ ~o.raised
           /\ o.value = {call.experiment_config[call.entry]}
           /\ o.config = call.experiment_config

C16_Witness ==
    \E o \in outcome :
        /\ Resolved(o)
        /\ call.entry = "epochs"
        /\ call.entry \in DOMAIN call.experiment_config
        /\ o.value = {0}
        /\ ~call.set_value

\* C17: with set_value false and the field absent, the default is returned
\* and the config is left unchanged; in particular the check of a previous
\* config's trained_model_path does not insert that field.
C17_OptOutLeavesConfig ==
    \A o \in outcome :
        ( /\ Resolved(o)
          /\ call.entry \in DOMAIN DocumentedDefaults
          /\ call.entry \notin DOMAIN call.experiment_config
          /\ ~call.set_value )
        => /\ ~o.raised
           /\ o.value = {DocumentedDefaults[call.entry]}
           /\ o.config = call.experiment_config
           /\ call.entry \notin DOMAIN o.config

C17_Witness ==
    \E o \in outcome :
        /\ Resolved(o)
        /\ call.entry = "trained_model_path"
        /\ ~call.set_value
        /\ "trained_model_path" \notin DOMAIN call.experiment_config
        /\ o.value = {NoPath}

\* the call of load_unlabelled_dataset made, with what it did
Loaded(o) == call.fn = "load_unlabelled_dataset" /\ o \in outcome

C19_PoolIsCapped ==
    \A o \in outcome :
        Loaded(o) =>
            \A stop \in call.max_unlabelled_windows :
                o.ret["unlabelled_combined"] <= stop

\* the selector call made, with what it returned
Selected(o) == call.fn = "pick_top_samples_per_class_np" /\ o \in outcome

\* the parameters the step's config gives the selector
SamplesPerClass ==
    IF "self_training_samples_per_class" \in DOMAIN call.experiment_config
    THEN call.experiment_config["self_training_samples_per_class"]
    ELSE 10000

MinimumConfidence ==
    IF "self_training_minimum_confidence" \in DOMAIN call.experiment_config
    THEN call.experiment_config["self_training_minimum_confidence"]
    ELSE 0

PluralityOnly == "self_training_plurality_only" \notin DOMAIN call.experiment_config

\* the samples selected for class c
SelectedFor(o, c) == { s \in DOMAIN call.y_prob : <<s, c>> \in o.selected }

\* the samples confident enough for class c
ConfidentFor(c) ==
    { s \in DOMAIN call.y_prob :
        /\ call.y_prob[s][c] >= MinimumConfidence
        /\ PluralityOnly =>
              \A d \in 1 .. 2 : call.y_prob[s][d] < call.y_prob[s][c]
                                 \/ (d >= c /\ call.y_prob[s][d] = call.y_prob[s][c]) }

\* C20: for all inputs of the selector, the selected subset contains for each
\* predicted class at most samples_per_class samples (at most samples_per_class
\* times num_classes in total), every selected sample has confidence at least
\* minimum_confidence, and a class with fewer confident samples than
\* samples_per_class contributes all of them and nothing else.
C20_SelectionIsBounded ==
    \A o \in outcome :
        Selected(o) =>
            /\ Cardinality(o.selected) <= SamplesPerClass * 2
            /\ \A c \in 1 .. 2 :
                  /\ Cardinality(SelectedFor(o, c)) <= SamplesPerClass
                  /\ \A s \in SelectedFor(o, c) :
                        call.y_prob[s][c] >= MinimumConfidence
                  /\ SelectedFor(o, c) \subseteq ConfidentFor(c)
                  /\ Cardinality(ConfidentFor(c)) < SamplesPerClass =>
                        SelectedFor(o, c) = ConfidentFor(c)

C20_Witness ==
    \E o \in outcome :
        /\ Selected(o)
        /\ SamplesPerClass = 2
        /\ MinimumConfidence = 6
        /\ Cardinality(ConfidentFor(1)) = 3
        /\ Cardinality(SelectedFor(o, 1)) = 2
        /\ Cardinality(ConfidentFor(2)) = 0
        /\ SelectedFor(o, 2) = {}

(***************************************************************************)
(* The aggregator on numbers.  A per-fold metric is a Python float (IEEE   *)
(* 754 binary64): zero, or a significand of Precision bits, most           *)
(* significant first and starting with 1, times 2^e.  A natural number is  *)
(* its bits, most significant first, without leading zeros.                *)
(***************************************************************************)
MaxFolds == 4

MaxTestWindows == 5

Precision == 53

\* the metrics other than the confusion matrix
ScalarMetrics == {"F1 Macro", "F1 Micro", "F1 Weighted", "Precision", "Recall", "Kappa"}

RECURSIVE Bits(_)
Bits(n) == IF n = 0 THEN <<>> ELSE Append(Bits(n \div 2), n % 2)

RECURSIVE Zeros(_)
Zeros(n) ==
    IF n <= 0 THEN <<>>
    ELSE LET half == Zeros(n \div 2)
         IN  IF n % 2 = 0 THEN half \o half ELSE Append(half \o half, 0)

RECURSIVE Trim(_)
Trim(b) == IF b = <<>> \/ b[1] = 1 THEN b ELSE Trim(Tail(b))

\* a + b + c on bit sequences of one length n >= 1: n + 1 bits, the first
\* being the carry out
RECURSIVE AddAligned(_, _, _)
AddAligned(a, b, c) ==
    IF Len(a) = 1
    THEN <<(a[1] + b[1] + c) \div 2, (a[1] + b[1] + c) % 2>>
    ELSE LET cut == Len(a) \div 2
             low == AddAligned(SubSeq(a, cut + 1, Len(a)), SubSeq(b, cut + 1, Len(b)), c)
             high(carry) == AddAligned(SubSeq(a, 1, cut), SubSeq(b, 1, cut), carry)
         IN  IF low[1] = 1 THEN high(1) \o Tail(low) ELSE high(0) \o Tail(low)

\* a + b + c on bit sequences
AddBits(a, b, c) ==
    LET n == IF Len(a) > Len(b) THEN Len(a) ELSE Len(b)
    IN  IF n = 0
        THEN Bits(c)
        ELSE Trim(AddAligned(Zeros(n - Len(a)) \o a, Zeros(n - Len(b)) \o b, c))

\* quotient (Len(n) bits) and remainder of r * 2^Len(n) + n by d, for r < d
RECURSIVE DivModFrom(_, _, _)
DivModFrom(n, d, r) ==
    IF n = <<>>
    THEN [q |-> <<>>, r |-> r]
    ELSE IF Len(n) = 1
    THEN [q |-> <<(2 * r + n[1]) \div d>>, r |-> (2 * r + n[1]) % d]
    ELSE LET cut == Len(n) \div 2
             high == DivModFrom(SubSeq(n, 1, cut), d, r)
             low == DivModFrom(SubSeq(n, cut + 1, Len(n)), d, high.r)
         IN  IF high.r < d THEN [q |-> high.q \o low.q, r |-> low.r] ELSE [q |-> <<>>, r |-> r]

\* quotient (with leading zeros) and remainder of a bit sequence by d > 0
DivMod(n, d) == DivModFrom(n, d, 0)

\* a <= b on bit sequences without leading zeros
LessEq(a, b) ==
    \/ Len(a) < Len(b)
    \/ /\ Len(a) = Len(b)
       /\ \/ a = b
          \/ \E p \in 1 .. Len(a) :
                /\ a[p] < b[p]
                /\ \A q \in 1 .. p - 1 : a[q] = b[q]

FloatZero == [m |-> <<>>, e |-> 0]

\* the float nearest to n * 2^e (plus a fraction of a unit of n when sticky),
\* ties to the even significand
Round(n, e, sticky) ==
    IF n = <<>>
    THEN FloatZero
    ELSE IF Len(n) <= Precision
    THEN [m |-> n \o Zeros(Precision - Len(n)), e |-> e - (Precision - Len(n))]
    ELSE LET kept == SubSeq(n, 1, Precision)
             rest == SubSeq(n, Precision + 1, Len(n))
             beyond == sticky \/ \E p \in 2 .. Len(rest) : rest[p] = 1
             up == rest[1] = 1 /\ (beyond \/ kept[Precision] = 1)
             r == IF up THEN AddBits(kept, <<1>>, 0) ELSE kept
         IN  IF Len(r) > Precision
             THEN [m |-> SubSeq(r, 1, Precision), e |-> e + Len(rest) + 1]
             ELSE [m |-> r, e |-> e + Len(rest)]

FloatOfInt(n) == Round(Bits(n), 0, FALSE)

\* x + y
FloatAdd(x, y) ==
    IF x.m = <<>> THEN y
    ELSE IF y.m = <<>> THEN x
    ELSE LET lo == IF x.e < y.e THEN x.e ELSE y.e
         IN  Round(AddBits(x.m \o Zeros(x.e - lo), y.m \o Zeros(y.e - lo), 0), lo, FALSE)

\* x / d for a positive integer d
FloatDivide(x, d) ==
    LET guard == Len(Bits(d)) + 2
        qr == DivMod(x.m \o Zeros(guard), d)
    IN  Round(Trim(qr.q), x.e - guard, qr.r # 0)

\* |x - y| is at most d units in the last place of y
WithinUlps(x, y, d) ==
    LET lo == IF x.e < y.e THEN x.e ELSE y.e
        a == Trim(x.m \o Zeros(x.e - lo))
        b == Trim(y.m \o Zeros(y.e - lo))
        t == Bits(d) \o Zeros(y.e - lo)
    IN  /\ LessEq(a, Trim(AddBits(b, t, 0)))
        /\ LessEq(b, Trim(AddBits(a, t, 0)))

\* the values a metric takes on a test set of at most MaxTestWindows windows
Ratios == { FloatDivide(FloatOfInt(p[1]), p[2]) : p \in {q \in (0 .. MaxTestWindows) \X (1 .. MaxTestWindows) : q[1] <= q[2]} }

\* the +=  of lines 765-766 over a dict of metrics
AddMetrics(performance, results) ==
    [ k \in DOMAIN performance |->
        IF k \in DOMAIN results THEN FloatAdd(performance[k], results[k]) ELSE performance[k] ]

\* the division of lines 786-791, by one more than the number of folds
DivideMetrics_oneMore(performance, folds) ==
    [ k \in DOMAIN performance |->
        IF k = "Confusion Matrix" THEN performance[k] ELSE FloatDivide(performance[k], folds + 1) ]

\* the division of lines 786-791
DivideMetrics(performance, folds) ==
    [ k \in DOMAIN performance |->
        IF k = "Confusion Matrix" THEN performance[k] ELSE FloatDivide(performance[k], folds) ]

InitAverage ==
    /\ config_file = EmptyDict
    /\ users \in 1 .. MaxFolds
    /\ verbose = 1
    /\ pc = "summary"
    /\ j = 0
    /\ i = 0
    /\ experiment_configs = EmptyDict
    /\ previous_config = {}
    /\ prepared_datasets = EmptyDict
    /\ model = {}
    /\ optimizer = FALSE
    /\ ev = [k \in 0 .. 3 |-> {}]
    /\ conv = [k \in 0 .. 3 |-> <<>>]
    /\ y_true = [k \in 0 .. 1 |-> <<>>]
    /\ y_pred = [k \in 0 .. 1 |-> <<>>]
    /\ performance_labelled_dataset =
          [e \in AggregatedExperiments |-> [k \in AccumulatorKeys |-> FloatZero]]
    /\ performance_unlabelled_dataset =
          [e \in AggregatedExperiments |-> [k \in AccumulatorKeys |-> FloatZero]]
    /\ performance_unlabelled_dataset_dictionary = EmptyDict
    /\ loadCalls = 0
    /\ trainReturned = {}
    /\ pathWritten = {}
    /\ lastStep = {}
    /\ message = ""
    /\ \E f1 \in Ratios, other \in Ratios :
          call = [ fn |-> "aggregate",
                   eval_results |->
                      [k \in ScalarMetrics |->
                          IF k \in {"F1 Macro", "F1 Micro", "F1 Weighted"} THEN f1 ELSE other] ]
    /\ outcome = {}

\* one fold's summary adds the same per-fold metrics to both accumulators
SumFold ==
    /\ call.fn = "aggregate"
    /\ j < users
    /\ j' = j + 1
    /\ performance_labelled_dataset' =
          [e \in AggregatedExperiments |->
              AddMetrics(performance_labelled_dataset[e], call.eval_results)]
    /\ performance_unlabelled_dataset' =
          [e \in AggregatedExperiments |->
              AddMetrics(performance_unlabelled_dataset[e], call.eval_results)]
    /\ UNCHANGED <<config_file, users, verbose, pc, i, experiment_configs,
                   previous_config, prepared_datasets, model, optimizer, ev,
                   conv, y_true, y_pred, loadCalls, trainReturned, pathWritten,
                   lastStep, message, call, outcome,
                   performance_unlabelled_dataset_dictionary>>

\* after the last fold the sums are divided by len(users)
DivideByFolds ==
    /\ call.fn = "aggregate"
    /\ j = users
    /\ outcome = {}
    /\ performance_labelled_dataset' =
          [e \in AggregatedExperiments |->
              DivideMetrics(performance_labelled_dataset[e], users)]
    /\ performance_unlabelled_dataset' =
          [e \in AggregatedExperiments |->
              DivideMetrics(performance_unlabelled_dataset[e], users)]
    /\ outcome' = {"aggregated"}
    /\ UNCHANGED <<config_file, users, verbose, pc, j, i, experiment_configs,
                   previous_config, prepared_datasets, model, optimizer, ev,
                   conv, y_true, y_pred, loadCalls, trainReturned, pathWritten,
                   lastStep, message, call, performance_unlabelled_dataset_dictionary>>

NextAverage == SumFold \/ DivideByFolds

SpecAverage == InitAverage /\ [][NextAverage]_vars

----------------------------------------------------------------------------
(* The Keras models a training step builds.  A model is the artifact its   *)
(* feature extractor comes from, the view taken of the loaded file, the    *)
(* head attached by the step, and `layers`: the trainable flags of the     *)
(* extractor's layers, layer 0 first.                                      *)

MaxLayers == 4

MaxTasks == 2

MaxEpochs == 31

\* the layers of create_1d_conv_core_model
CoreLayerNames ==
    <<"input", "conv1d", "dropout", "conv1d_1", "dropout_1", "conv1d_2", "dropout_2",
      "global_max_pooling1d">>

transform_funcs_names ==
    <<"noised", "scaled", "rotated", "negated", "time_flipped", "permuted", "time_warped",
      "channel_shuffled">>

\* the position at which list[:k] ends and list[k:] starts, for a list of
\* length n
SliceStart(n, k) ==
    IF k < 0
    THEN IF n + k < 0 THEN 0 ELSE n + k
    ELSE IF k > n THEN n ELSE k

\* mutant: without the second loop
set_freeze_layers_firstLoopOnly(layers, num_freeze_layer_index) ==
    IF num_freeze_layer_index = {}
    THEN [p \in DOMAIN layers |-> FALSE]
    ELSE LET cut == SliceStart(Len(layers), CHOOSE k \in num_freeze_layer_index : TRUE)
         IN  [p \in DOMAIN layers |-> IF p <= cut THEN FALSE ELSE layers[p]]

\* set_freeze_layers(model, num_freeze_layer_index) on the trainable flags of
\* model.layers; num_freeze_layer_index is {} for None
set_freeze_layers(layers, num_freeze_layer_index) ==
    IF num_freeze_layer_index = {}
    THEN [p \in DOMAIN layers |-> FALSE]
    ELSE LET cut == SliceStart(Len(layers), CHOOSE k \in num_freeze_layer_index : TRUE)
             frozen == [p \in DOMAIN layers |-> IF p <= cut THEN FALSE ELSE layers[p]]
         IN  [p \in DOMAIN layers |-> IF p > cut THEN TRUE ELSE frozen[p]]

Created == <<"created">>

create_1d_conv_core_model ==
    [ artifact |-> Created, view |-> "core", head |-> "",
      layers |-> [p \in DOMAIN CoreLayerNames |-> TRUE] ]

\* tf.keras.models.load_model(path) of a file whose extractor was saved with
\* the flags stored_layers
load_model(path, stored_layers) ==
    [ artifact |-> LoadModel(path).artifact, view |-> LoadModel(path).view, head |-> "",
      layers |-> stored_layers ]

\* set_freeze_layers on a core model, or on extract_core_model(har_model):
\* the layers are those of the model that is trained
Freeze(m, num_freeze_layer_index) ==
    [m EXCEPT !.layers = set_freeze_layers(@, num_freeze_layer_index)]

attach_linear_classification_head(core_model) == [core_model EXCEPT !.head = "Linear"]

attach_full_har_classification_head(core_model) == [core_model EXCEPT !.head = "HAR"]

\* mutant: one loss per task only
attach_multitask_transform_head_taskLosses(core_model, output_tasks, with_har_head) ==
    [ core_model |-> core_model,
      outputs |-> [p \in DOMAIN output_tasks |-> [name |-> output_tasks[p], kind |-> "binary"]]
                    \o (IF with_har_head THEN <<[name |-> "har", kind |-> "har"]>> ELSE <<>>),
      losses |-> [p \in DOMAIN output_tasks |-> "BinaryCrossentropy"] ]

attach_multitask_transform_head(core_model, output_tasks, with_har_head) ==
    [ core_model |-> core_model,
      outputs |-> [p \in DOMAIN output_tasks |-> [name |-> output_tasks[p], kind |-> "binary"]]
                    \o (IF with_har_head THEN <<[name |-> "har", kind |-> "har"]>> ELSE <<>>),
      losses |-> [p \in DOMAIN output_tasks |-> "BinaryCrossentropy"]
                    \o (IF with_har_head THEN <<"CategoricalCrossentropy">> ELSE <<>>) ]

\* a Keras layer that is not itself a model
Layer(class, name) == [class |-> class, name |-> name]

\* model.layers of the functional model tf.keras.Model(inputs, outputs) that
\* each attach_* function returns: the layers on the way from `inputs` to
\* `outputs`, the Input first, then the layers it feeds, and so on; the core
\* model, called on `inputs` as one layer, is the only layer fed by the Input

\* lines 130-137
full_har_classification_layers(core_model) ==
    << Layer("InputLayer", "input"), core_model, Layer("Dense", "dense"),
       Layer("Dense", "dense_1"), Layer("Softmax", "softmax") >>

\* lines 172-178
linear_classification_layers(core_model) ==
    << Layer("InputLayer", "input"), core_model, Layer("Dense", "dense"),
       Layer("Softmax", "softmax") >>

\* lines 192-210: per task a Dense(256) and the Dense(1) named after the
\* task; with_har_head adds Dense(num_units_har), Dense(har_output_shape) and
\* the Softmax named 'har'
multitask_transform_layers(core_model, output_tasks, with_har_head) ==
    << Layer("InputLayer", "input"), core_model >>
      \o [p \in DOMAIN output_tasks |-> Layer("Dense", <<"hidden", output_tasks[p]>>)]
      \o (IF with_har_head THEN <<Layer("Dense", <<"hidden", "har">>)>> ELSE <<>>)
      \o [p \in DOMAIN output_tasks |-> Layer("Dense", <<output_tasks[p]>>)]
      \o (IF with_har_head
          THEN <<Layer("Dense", <<"logits", "har">>), Layer("Softmax", <<"har">>)>>
          ELSE <<>>)

\* variant: the first layer of the composite
composite_layer_1_first(layers) == layers[1]

\* line 77: composite_model.layers[1], on the list of layers (whose first
\* element has index 1 here)
composite_layer_1(layers) == layers[2]

\* mutant: a new extractor whatever the previous config holds
transform_core_model_alwaysNew(previous, stored_layers) == create_1d_conv_core_model

\* lines 395-403: the extractor of a transform_train step
transform_core_model(previous, stored_layers) ==
    IF get_config_default_value_if_none(previous, "trained_model_path") = NoPath
    THEN create_1d_conv_core_model
    ELSE extract_core_model(load_model(previous["trained_model_path"], stored_layers))

\* mutant: the extractor is taken from every previous artifact
select_har_model_coreOnly(experiment_type, previous, stored_layers) ==
    IF get_config_default_value_if_none(previous, "trained_model_path") = NoPath
    THEN [is_core_model |-> TRUE, model |-> create_1d_conv_core_model]
    ELSE [ is_core_model |-> TRUE,
           model |-> extract_core_model(load_model(previous["trained_model_path"],
                                                   stored_layers)) ]

\* lines 444-466: the model a har_* step starts from
select_har_model(experiment_type, previous, stored_layers) ==
    IF get_config_default_value_if_none(previous, "trained_model_path") = NoPath
    THEN [is_core_model |-> TRUE, model |-> create_1d_conv_core_model]
    ELSE
      LET previous_model == load_model(previous["trained_model_path"], stored_layers)
          previous_type == get_config_default_value_if_none(previous,
                                                            "trained_model_type")
      IN  IF experiment_type = "har_linear_train"
          THEN [is_core_model |-> TRUE, model |-> extract_core_model(previous_model)]
          ELSE IF previous_type = "har_model"
          THEN [is_core_model |-> FALSE, model |-> previous_model]
          ELSE IF previous_type = "transform_with_har_model"
          THEN [is_core_model |-> FALSE, model |-> extract_har_model(previous_model)]
          ELSE [is_core_model |-> TRUE, model |-> extract_core_model(previous_model)]

\* mutant: a HAR model taken from the previous artifact keeps its flags
har_model_to_train_keepsLoadedFlags(experiment_type, selected) ==
    IF selected.is_core_model
    THEN CASE experiment_type = "har_linear_train" ->
                attach_linear_classification_head(Freeze(selected.model, {}))
           [] experiment_type = "har_full_train" ->
                attach_full_har_classification_head(Freeze(selected.model, {0}))
           [] experiment_type = "har_full_fine_tune" ->
                attach_full_har_classification_head(Freeze(selected.model, {5}))
    ELSE selected.model

\* lines 468-483: freezing, and the head attached to a core model
har_model_to_train(experiment_type, selected) ==
    IF selected.is_core_model
    THEN CASE experiment_type = "har_linear_train" ->
                attach_linear_classification_head(Freeze(selected.model, {}))
           [] experiment_type = "har_full_train" ->
                attach_full_har_classification_head(Freeze(selected.model, {0}))
           [] experiment_type = "har_full_fine_tune" ->
                attach_full_har_classification_head(Freeze(selected.model, {5}))
    ELSE CASE experiment_type = "har_full_train" -> Freeze(selected.model, {0})
           [] experiment_type = "har_full_fine_tune" -> Freeze(selected.model, {5})
           [] OTHER -> selected.model

\* x * 2^n
ScaleByPowerOfTwo(x, n) == IF x.m = <<>> THEN x ELSE [x EXCEPT !.e = @ + n]

\* mutant: the schedule of the har_* steps (line 486)
training_rate_schedule_constant(initial_learning_rate, epoch) == initial_learning_rate

\* lines 418-422: initial_learning_rate * (0.5 ** (epoch // 15))
training_rate_schedule(initial_learning_rate, epoch) ==
    ScaleByPowerOfTwo(initial_learning_rate, 0 - (epoch \div 15))

\* lines 485-489, the schedule of the har_* steps: rate = initial_learning_rate
har_training_rate_schedule(initial_learning_rate, epoch) == initial_learning_rate

\* lines 555-559, the schedule of the self_training and self_har steps:
\* rate = 0.0003 * (0.5 ** (epoch // 15))
self_training_rate_schedule(initial_learning_rate, epoch) ==
    ScaleByPowerOfTwo(FloatDivide(FloatOfInt(3), 10000), 0 - (epoch \div 15))

\* the training_rate_schedule the branch of each step type defines and hands
\* to LearningRateScheduler, which sets the optimizer's rate from it at the
\* start of every epoch
step_training_rate(experiment_type, initial_learning_rate, epoch) ==
    CASE experiment_type = "transform_train" ->
            training_rate_schedule(initial_learning_rate, epoch)
      [] experiment_type \in HarTypes ->
            har_training_rate_schedule(initial_learning_rate, epoch)
      [] experiment_type \in SelfTypes ->
            self_training_rate_schedule(initial_learning_rate, epoch)

\* the previous configs a step can find
PreviousConfigs ==
    { EmptyDict,
      [trained_model_path |-> NoPath],
      [trained_model_type |-> "har_model"],
      [trained_model_path |-> PresetPath] }
    \cup { [trained_model_path |-> TrainedPath(0, 1), trained_model_type |-> t] :
             t \in {"unknown", "har_model", "transform_model", "transform_with_har_model"} }

\* the lists of at most n different names out of `names`
RECURSIVE ListsOfDistinct(_, _)
ListsOfDistinct(names, n) ==
    IF n = 0
    THEN {<<>>}
    ELSE LET shorter == ListsOfDistinct(names, n - 1)
             longer == { Append(l, x) : l \in shorter, x \in names }
         IN  shorter \cup { l \in longer : \A p \in 1 .. Len(l) - 1 : l[p] # l[Len(l)] }

\* the core models the steps hand to the attach_* functions: new (398, 448,
\* 554), frozen (470, 474, 478), or taken from a loaded file (403, 456, 465)
CoreModels ==
    { create_1d_conv_core_model,
      Freeze(create_1d_conv_core_model, {}),
      Freeze(create_1d_conv_core_model, {5}),
      extract_core_model(load_model(PresetPath, [p \in DOMAIN CoreLayerNames |-> TRUE])),
      extract_core_model(load_model(TrainedPath(0, 1),
                                    [p \in DOMAIN CoreLayerNames |-> p > 5])) }

LearningRates == { FloatDivide(FloatOfInt(p[1]), p[2]) : p \in {<<3, 10000>>, <<1, 1000>>, <<3, 100>>} }

InitModels ==
    /\ MainIdle
    /\ \/ \E n \in 0 .. MaxLayers :
             call \in [ fn : {"set_freeze_layers"},
                        layers : [1 .. n -> BOOLEAN],
                        num_freeze_layer_index :
                            {{}} \cup { {k} : k \in (0 - 1) .. (n + 1) } ]
       \/ call \in [ fn : {"attach_multitask_transform_head"},
                     output_tasks :
                         ListsOfDistinct({ transform_funcs_names[p] :
                                             p \in DOMAIN transform_funcs_names }, MaxTasks),
                     with_har_head : BOOLEAN ]
       \/ call \in [ fn : {"transform_train"},
                     previous_config : PreviousConfigs,
                     stored_layers : [DOMAIN CoreLayerNames -> BOOLEAN] ]
       \/ call \in [ fn : {"har_train"},
                     experiment_type : HarTypes,
                     previous_config : PreviousConfigs,
                     stored_layers : [DOMAIN CoreLayerNames -> BOOLEAN] ]
       \/ call \in [ fn : {"training_rate_schedule"},
                     initial_learning_rate : LearningRates,
                     epochs : {MaxEpochs} ]
       \/ call \in [ fn : {"extract_core_model"},
                     attach : {"full_har", "linear"},
                     core_model : CoreModels ]
       \/ /\ call \in [ fn : {"extract_core_model"},
                        attach : {"multitask_transform"},
                        core_model : CoreModels,
                        output_tasks :
                            ListsOfDistinct({ transform_funcs_names[p] :
                                                p \in DOMAIN transform_funcs_names },
                                            MaxTasks),
                        with_har_head : BOOLEAN ]
          /\ call.output_tasks # <<>> \/ call.with_har_head
       \/ call \in [ fn : {"first_epoch"},
                     experiment_type : {"transform_train"} \cup HarTypes \cup SelfTypes,
                     initial_learning_rate : LearningRates ]
    /\ outcome = {}

\* set_freeze_layers is called, a first and a second time with the same
\* argument
SetFreezeLayers ==
    /\ call.fn = "set_freeze_layers"
    /\ \/ /\ outcome = {}
          /\ outcome' = {[ calls |-> 1,
                           layers |-> set_freeze_layers(call.layers,
                                                        call.num_freeze_layer_index) ]}
       \/ \E o \in outcome :
             /\ o.calls = 1
             /\ outcome' = {[ calls |-> 2,
                              after_one |-> o.layers,
                              layers |-> set_freeze_layers(o.layers,
                                                           call.num_freeze_layer_index) ]}
    /\ UNCHANGED <<mainVars, call>>

AttachMultitaskTransformHead ==
    /\ call.fn = "attach_multitask_transform_head"
    /\ outcome = {}
    /\ outcome' = {attach_multitask_transform_head(create_1d_conv_core_model,
                                                   call.output_tasks, call.with_har_head)}
    /\ UNCHANGED <<mainVars, call>>

\* lines 395-405
BuildTransformModel ==
    /\ call.fn = "transform_train"
    /\ outcome = {}
    /\ outcome' = {attach_multitask_transform_head(
                       transform_core_model(call.previous_config, call.stored_layers),
                       transform_funcs_names, FALSE)}
    /\ UNCHANGED <<mainVars, call>>

\* lines 444-483
BuildHarModel ==
    /\ call.fn = "har_train"
    /\ outcome = {}
    /\ outcome' = {har_model_to_train(call.experiment_type,
                                      select_har_model(call.experiment_type,
                                                       call.previous_config,
                                                       call.stored_layers))}
    /\ UNCHANGED <<mainVars, call>>

\* the LearningRateScheduler callback asks for the rate of the next epoch
NextEpoch ==
    /\ call.fn = "training_rate_schedule"
    /\ LET rates == IF outcome = {} THEN <<>> ELSE (CHOOSE o \in outcome : TRUE).rates
       IN  /\ Len(rates) < call.epochs
           /\ outcome' = {[ rates |-> Append(rates,
                               training_rate_schedule(call.initial_learning_rate,
                                                      Len(rates))) ]}
    /\ UNCHANGED <<mainVars, call>>

\* a model is built on call.core_model and handed to extract_core_model
ExtractCoreModel ==
    /\ call.fn = "extract_core_model"
    /\ outcome = {}
    /\ LET layers ==
             CASE call.attach = "full_har" ->
                    full_har_classification_layers(call.core_model)
               [] call.attach = "linear" ->
                    linear_classification_layers(call.core_model)
               [] call.attach = "multitask_transform" ->
                    multitask_transform_layers(call.core_model, call.output_tasks,
                                               call.with_har_head)
       IN  outcome' = {[ layers |-> layers, extracted |-> composite_layer_1(layers) ]}
    /\ UNCHANGED <<mainVars, call>>

\* the first epoch of a training step of any type starts
FirstEpoch ==
    /\ call.fn = "first_epoch"
    /\ outcome = {}
    /\ outcome' = {[ rate |-> step_training_rate(call.experiment_type,
                                                 call.initial_learning_rate, 0) ]}
    /\ UNCHANGED <<mainVars, call>>

NextModels ==
    \/ SetFreezeLayers
    \/ AttachMultitaskTransformHead
    \/ BuildTransformModel
    \/ BuildHarModel
    \/ NextEpoch
    \/ FirstEpoch
    \/ ExtractCoreModel

SpecModels == InitModels /\ [][NextModels]_vars

\* the fold loop has ended and lines 784-797 have run
AfterFoldLoop == pc = "done" \/ (pc = "crashed" /\ message = "NameError: path")

\* experiment e is a training step that was evaluated in every fold
EvaluatedTraining(e) ==
    /\ e \in DOMAIN experiment_configs
    /\ e \in trainReturned
    /\ "eval_results" \in DOMAIN experiment_configs[e]

\* the HAR model experiment e evaluated in fold f
FoldModel(f, e) ==
    LET loaded == LoadModel(TrainedPath(f, e))
    IN  IF experiment_configs[e]["trained_model_type"] = "har_model"
        THEN loaded
        ELSE extract_har_model(loaded)

\* the sum over all folds of experiment e's metric k on `data`, divided by the
\* number of folds
MeanOverFolds(e, k, data) ==
    [ addends |-> [f \in 1 .. users |-> Evaluate(FoldModel(f - 1, e), data, f - 1)[k]],
      divided_by |-> {users} ]

\* C21: after the fold loop, for Experiment 2 and for Experiment 3 each
\* aggregated metric (F1 Macro, F1 Micro, F1 Weighted, Precision, Recall,
\* Kappa) equals the sum over all folds of that experiment's per-fold metric
\* divided by the number of folds.
C21_AggregateIsMeanOverFolds ==
    AfterFoldLoop =>
        \A e \in {2, 3} :
            EvaluatedTraining(e) =>
                \A k \in ScalarMetrics :
                    /\ performance_labelled_dataset[e][k] =
                          MeanOverFolds(e, k, "labelled_test")
                    /\ performance_unlabelled_dataset[e][k] =
                          MeanOverFolds(e, k, "unlabelled")

\* the per-fold blocks of experiment e's true and predicted test labels, in
\* fold order
PooledTrue == [f \in 1 .. users |-> TestLabels(f - 1)]
PooledPredicted(e) == [f \in 1 .. users |-> TestPredictions(FoldModel(f - 1, e), f - 1)]

\* C22: for experiment indices 2 and 3 the labelled-evaluation confusion
\* matrix is built from the true and predicted label lists pooled over all
\* folds (each fold's lists appended in fold order); it is not a per-fold
\* matrix sum divided by the number of folds.
C22_LabelledMatrixIsPooled ==
    AfterFoldLoop =>
        \A e \in {2, 3} :
            EvaluatedTraining(e) =>
                /\ y_true[e - 2] = PooledTrue
                /\ y_pred[e - 2] = PooledPredicted(e)
                /\ performance_labelled_dataset[e]["Confusion Matrix"] =
                      confusion_matrix(PooledTrue, PooledPredicted(e))

C22_Witness ==
    /\ AfterFoldLoop
    /\ users = MaxUsers
    /\ EvaluatedTraining(2)
    /\ EvaluatedTraining(3)
    /\ Len(y_pred[0]) = MaxUsers
    /\ Len(y_pred[1]) = MaxUsers

\* the aggregate of K identical per-fold dicts has been computed
Averaged == call.fn = "aggregate" /\ outcome # {}

\* C23 as stated: summing K identical per-fold metric dicts and dividing by K
\* gives back exactly that dict, for every K >= 1.
C23_AsStated ==
    Averaged =>
        \A e \in AggregatedExperiments, k \in ScalarMetrics :
            performance_labelled_dataset[e][k] = call.eval_results[k]

\* C23: summing K identical per-fold metric dicts and dividing by K gives
\* back that dict exactly when K is 1, 2 or 4, and otherwise up to the
\* rounding of the floating-point sum and division: every metric is within K
\* units in the last place of its per-fold value.
C23_AverageOfIdenticalFolds ==
    Averaged =>
        \A e \in AggregatedExperiments, k \in ScalarMetrics :
            /\ users \in {1, 2, 4} =>
                  performance_labelled_dataset[e][k] = call.eval_results[k]
            /\ performance_labelled_dataset[e][k].m = <<>> <=> call.eval_results[k].m = <<>>
            /\ WithinUlps(performance_labelled_dataset[e][k], call.eval_results[k], users)

C23_Witness ==
    /\ Averaged
    /\ users = 3
    /\ performance_labelled_dataset[2]["F1 Macro"] # call.eval_results["F1 Macro"]
    /\ performance_labelled_dataset[2]["Recall"] = call.eval_results["Recall"]
    /\ call.eval_results["Recall"] # FloatZero

\* a har_* step has built the model it trains
HarBuilt == call.fn = "har_train" /\ outcome # {}

\* the config has no artifact: trained_model_path is absent or empty
NoArtifact(c) == "trained_model_path" \notin DOMAIN c \/ c["trained_model_path"] = NoPath

\* C24: in a har_linear_train step every layer of the feature extractor is
\* non-trainable; in a har_full_train step every layer is trainable; in a
\* har_full_fine_tune step exactly the layers before index 5 are
\* non-trainable; whether the extractor is new or comes from a previous
\* artifact.
C24_FreezingFollowsMode ==
    HarBuilt =>
        \A m \in outcome :
            /\ call.experiment_type = "har_linear_train" =>
                  \A p \in DOMAIN m.layers : ~m.layers[p]
            /\ call.experiment_type = "har_full_train" =>
                  \A p \in DOMAIN m.layers : m.layers[p]
            /\ call.experiment_type = "har_full_fine_tune" =>
                  \A p \in DOMAIN m.layers : m.layers[p] <=> p - 1 >= 5

C24_Witness ==
    /\ HarBuilt
    /\ call.experiment_type = "har_full_fine_tune"
    /\ ~NoArtifact(call.previous_config)
    /\ \A p \in DOMAIN call.stored_layers : call.stored_layers[p] <=> p - 1 < 5
    /\ \E m \in outcome : m.artifact # Created /\ m.layers # call.stored_layers

\* the previous artifact of the har_* step is a transform_with_har_model
PreviousIsComposite ==
    /\ HarBuilt
    /\ ~NoArtifact(call.previous_config)
    /\ "trained_model_type" \in DOMAIN call.previous_config
    /\ call.previous_config["trained_model_type"] = "transform_with_har_model"

\* C25 as stated: for a har_full_train, har_full_fine_tune or
\* har_linear_train step whose previous artifact has type
\* transform_with_har_model, the model trained is the HAR sub-model extracted
\* from that artifact, never the raw extractor with a newly attached head.
C25_AsStated ==
    PreviousIsComposite =>
        \A m \in outcome : m.view = "har" /\ m.head = ""

\* C25: for a har_full_train or har_full_fine_tune step whose previous
\* artifact has type transform_with_har_model, the model trained is the HAR
\* sub-model extracted from that artifact, with no new head; a
\* har_linear_train step takes the feature extractor of the artifact and
\* attaches a new linear head.
C25_CompositeGivesHarSubModel ==
    PreviousIsComposite =>
        \A m \in outcome :
            /\ m.artifact = call.previous_config["trained_model_path"]
            /\ IF call.experiment_type = "har_linear_train"
               THEN m.view = "core" /\ m.head = "Linear"
               ELSE m.view = "har" /\ m.head = ""

C25_Witness ==
    /\ PreviousIsComposite
    /\ call.experiment_type = "har_full_fine_tune"
    /\ \E m \in outcome : m.view = "har"

\* the feature extractor of the model a transform_train or har_* step built
BuiltExtractors ==
    IF call.fn = "transform_train"
    THEN {m.core_model : m \in outcome}
    ELSE IF call.fn = "har_train" THEN outcome ELSE {}

\* C26: a transform_train or har_* step uses a freshly initialised feature
\* extractor exactly when it has no previous artifact; otherwise it uses the
\* model stored at the previous config's trained_model_path and creates no
\* new extractor.
C26_FreshExactlyWithoutArtifact ==
    \A core \in BuiltExtractors :
        /\ core.artifact = Created <=> NoArtifact(call.previous_config)
        /\ ~NoArtifact(call.previous_config) =>
              core.artifact = call.previous_config["trained_model_path"]

C26_Witness ==
    /\ call.fn = "transform_train"
    /\ ~NoArtifact(call.previous_config)
    /\ \E core \in BuiltExtractors : core.artifact = PresetPath

\* C27: after set_freeze_layers(model, k) with an integer k between 0 and the
\* number of layers, layer i is trainable exactly when i >= k, whatever the
\* flags were before; after set_freeze_layers(model, None) no layer is
\* trainable; a second call with the same argument leaves the flags of the
\* first.
C27_FreezeBoundary ==
    call.fn = "set_freeze_layers" =>
        \A o \in outcome :
            /\ call.num_freeze_layer_index = {} =>
                  \A p \in DOMAIN o.layers : ~o.layers[p]
            /\ \A k \in call.num_freeze_layer_index :
                  (0 <= k /\ k <= Len(call.layers)) =>
                      \A p \in DOMAIN o.layers : o.layers[p] <=> p - 1 >= k
            /\ o.calls = 2 => o.layers = o.after_one
            /\ DOMAIN o.layers = DOMAIN call.layers

C27_Witness ==
    /\ call.fn = "set_freeze_layers"
    /\ call.num_freeze_layer_index = {1}
    /\ Len(call.layers) = MaxLayers
    /\ call.layers[1]
    /\ ~call.layers[2]
    /\ \E o \in outcome : o.calls = 2 /\ ~o.layers[1] /\ o.layers[2]

\* C28: attach_multitask_transform_head builds one binary output per task, in
\* the order given and named by its task, followed by the HAR output as the
\* last output exactly when with_har_head is true; there are as many losses
\* as outputs.
C28_OneHeadPerTask ==
    call.fn = "attach_multitask_transform_head" =>
        \A m \in outcome :
            LET tasks == call.output_tasks
            IN  /\ Len(m.outputs) = Len(tasks) + (IF call.with_har_head THEN 1 ELSE 0)
                /\ \A p \in 1 .. Len(tasks) :
                      m.outputs[p] = [name |-> tasks[p], kind |-> "binary"]
                /\ call.with_har_head => m.outputs[Len(m.outputs)].kind = "har"
                /\ Len(m.losses) = Len(m.outputs)

C28_Witness ==
    /\ call.fn = "attach_multitask_transform_head"
    /\ call.with_har_head
    /\ Len(call.output_tasks) = MaxTasks
    /\ \E m \in outcome : Len(m.outputs) = MaxTasks + 1

\* C29: in a transform_train step the rate of epoch 0 is the step's
\* initial_learning_rate, the rate is constant within each block of 15
\* consecutive epochs, and the rate of epoch e + 15 is half the rate of
\* epoch e.
C29_HalvedEvery15Epochs ==
    call.fn = "training_rate_schedule" =>
        \A o \in outcome :
            \A p \in 1 .. Len(o.rates) :
                /\ p = 1 => o.rates[p] = call.initial_learning_rate
                /\ (p - 1) % 15 # 0 => o.rates[p] = o.rates[p - 1]
                /\ p > 15 => o.rates[p] = ScaleByPowerOfTwo(o.rates[p - 15], 0 - 1)

C29_Witness ==
    /\ call.fn = "training_rate_schedule"
    /\ call.initial_learning_rate = FloatDivide(FloatOfInt(3), 10000)
    /\ \E o \in outcome : Len(o.rates) = MaxEpochs

\* C30: in every reachable state of a fold, a dataset cache that holds
\* 'unlabelled' also holds 'unlabelled_combined', so a step that skips loading
\* because 'unlabelled' is present can read the combined pool.
C30_UnlabelledImpliesCombined ==
    "unlabelled" \in DOMAIN prepared_datasets =>
        "unlabelled_combined" \in DOMAIN prepared_datasets

\* C31: executing the step at position i of a fold changes no entry of
\* experiment_configs other than entry i: the previous config and every other
\* config have the same fields and values after the step as before it.
C31_StepWritesOwnConfigOnly ==
    [][ pc = "experiments" =>
          \A k \in DOMAIN experiment_configs \ {i} :
              experiment_configs'[k] = experiment_configs[k] ]_vars

\* C32: the copy of ev the summary of fold f keeps under f, and the term
\* fold f adds to each unlabelled metric sum, hold only evaluation results
\* computed in fold f; a fold without an unlabelled evaluation of experiment 2
\* or 3 keeps None for it.
C32_FoldRecordsOwnResults ==
    /\ \A f \in DOMAIN performance_unlabelled_dataset_dictionary :
          \A e \in 0 .. 3 :
             \A r \in performance_unlabelled_dataset_dictionary[f][e] :
                \A k \in MetricKeys : r[k].fold = f /\ r[k].data = "unlabelled"
    /\ \A e \in AggregatedExperiments :
          \A k \in AccumulatorKeys \ {"Confusion Matrix"} :
             LET addends == performance_unlabelled_dataset[e][k].addends
             IN  \A f \in 1 .. Len(addends) :
                    addends[f].fold = f - 1 /\ addends[f].data = "unlabelled"

\* the second fold's summary has kept its copy and added its terms, after the
\* fold started with the first fold's results still in ev
C32_Witness ==
    /\ 1 \in DOMAIN performance_unlabelled_dataset_dictionary
    /\ performance_unlabelled_dataset_dictionary[0][2] # {}
    /\ performance_unlabelled_dataset_dictionary[1][2] # {}
    /\ Len(performance_unlabelled_dataset[2]["F1 Macro"].addends) = 2

\* C33: the aggregate performance records do not depend on the verbosity
\* level: whenever a fold ends, its summary leaves the same sums and raises or
\* not alike at verbose 0 and at verbose 1, and the report after the fold loop
\* is written at both levels or at neither.
C33_VerbosityIndependent ==
    /\ pc = "fold_end" => Summary(0) = Summary(1)
    /\ pc = "sweep_end" => ReportRaises(0) = ReportRaises(1)

\* the fields a step writes into its config for later steps to read
ArtifactFields == {"trained_model_path", "trained_model_type", "eval_results"}

\* the artifact at path p was trained in fold f or was named by the config file
OfFold(p, f) == p = PresetPath \/ (Len(p) = 3 /\ p[2] = f)

\* C34: when a fold starts, every config holds for trained_model_path,
\* trained_model_type and eval_results exactly what the config file holds, so
\* nothing written in an earlier fold; and during a fold every
\* trained_model_path a step can load from, and every model a step evaluates,
\* is an artifact trained in that fold (or one the config file names).
C34_FoldIsolation ==
    /\ (pc = "experiments" /\ i = 0) =>
          \A k \in DOMAIN experiment_configs :
             \A entry \in ArtifactFields :
                /\ (entry \in DOMAIN experiment_configs[k]) = (entry \in DOMAIN config_file[k])
                /\ entry \in DOMAIN experiment_configs[k] =>
                      experiment_configs[k][entry] = config_file[k][entry]
    /\ pc \in {"experiments", "fold_end"} =>
          \A k \in DOMAIN experiment_configs :
             "trained_model_path" \in DOMAIN experiment_configs[k] =>
                OfFold(experiment_configs[k]["trained_model_path"], j)
    /\ \A s \in lastStep :
          \A used \in s.evaluated : OfFold(used.artifact, s.fold)

\* the second fold has started after the first one trained and evaluated
\* a model, and a step of the second fold has evaluated one
C34_Witness ==
    /\ j = 1
    /\ \E s \in lastStep : s.fold = 1 /\ s.evaluated # {}
    /\ \E k \in DOMAIN experiment_configs :
          /\ "eval_results" \in DOMAIN experiment_configs[k]
          /\ "trained_model_path" \notin DOMAIN config_file[k]

\* C35: for every training step type (transform_train, har_full_train,
\* har_full_fine_tune, har_linear_train, self_training, self_har) and every
\* configured initial_learning_rate, the learning rate of epoch 0 is the
\* step's initial_learning_rate.
C35_FirstEpochRateIsConfigured ==
    call.fn = "first_epoch" =>
        \A o \in outcome : o.rate = call.initial_learning_rate

\* C36: load_unlabelled_dataset returns as many labels as unlabelled windows
\* (the two arrays are then aligned index for index), whether
\* max_unlabelled_windows is None, at least the number of unlabelled windows,
\* or smaller than it.
C36_LabelsMatchWindows ==
    call.fn = "load_unlabelled_dataset" =>
        \A o \in outcome : o.label = o.ret["unlabelled"]

\* C37: for a model built by attach_full_har_classification_head,
\* attach_linear_classification_head or attach_multitask_transform_head on a
\* core model C, extract_core_model of the built model is C.
C37_ExtractGivesAttachedCore ==
    call.fn = "extract_core_model" =>
        \A o \in outcome : o.extracted = call.core_model

\* the core has been extracted from a multitask model with several task
\* heads and a HAR head, built on a core taken from a loaded file
C37_Witness ==
    /\ call.fn = "extract_core_model"
    /\ call.attach = "multitask_transform"
    /\ Len(call.output_tasks) = MaxTasks
    /\ call.with_har_head
    /\ call.core_model.artifact = PresetPath
    /\ \E o \in outcome : Len(o.layers) = 2 * MaxTasks + 5

\* C38: prepare_dataset returns an output_shape equal to the number of
\* entries of the label_map it returns, and the indices of that label_map are
\* exactly 0 .. output_shape - 1, ascending with the class name; for every
\* label_list, one with repeated class names included, with or without a
\* target label_map.
C38_LabelMapIndexesClasses ==
    call.fn = "prepare_dataset" =>
        \A o \in outcome :
            /\ o.output_shape = Cardinality(DOMAIN o.label_map)
            /\ { o.label_map[l] : l \in DOMAIN o.label_map } = 0 .. (o.output_shape - 1)
            /\ \A l1, l2 \in DOMAIN o.label_map :
                  l1 < l2 => o.label_map[l1] < o.label_map[l2]

====
